---- MODULE Spec2Model ----
(***************************************************************************)
(* Model of the procedure chain walker of the SQL dependency analyzer      *)
(* (ProcedureChainService in procedure-chain.service.ts): the asynchronous *)
(* expansion of a call graph from a root procedure, and the cycle          *)
(* detection that runs over the node list it builds.                       *)
(*                                                                         *)
(* A procedure name XX_Body_SP is the pair <<domain, body>>; substring(0,2)*)
(* of the name is its first component.  The content of a file is           *)
(* represented by the list of names findExecCalls returns for it.          *)
(***************************************************************************)
EXTENDS Integers, Sequences, FiniteSets, TLC

\* ----------------------------------------------------------------- bounds
\* largest number of names findExecCalls returns for one file of the model
MaxCalls == 2
\* largest number of call references in all files of the walker's model
MaxRefs == 3
\* largest number of procedures whose file is not at the top of the base directory
MaxOffTop == 1
\* largest number of call references in the node lists given to detectCycles
MaxCycleRefs == 5

\* ------------------------------------------------------------------ names
R == <<"AA", "R">>
A == <<"AA", "A">>
B == <<"BB", "B">>
C == <<"BB", "C">>
\* a reference whose domain prefix is in lower case: findExecCalls matches
\* case-insensitively, the walker's check of the name does not
X == <<"bb", "x">>

Names == {R, A, B, C}
Targets == Names \cup {X}
Domains == {"AA", "BB"}
\* the order for..in visits the keys of callsByDomain is immaterial here:
\* the groups hold disjoint names
DomainSeq == <<"AA", "BB">>
\* the names in the order Array.prototype.sort() puts them (UTF-16 code units)
SortedNames == <<A, R, B, C, X>>

Runs == {1, 2}
NoPromise == <<0, 0>>

\* procName.substring(0, 2)
DomainOf(procName) == procName[1]

\* procName.match(/^[A-Z]{2}_[A-Za-z0-9_]+?_SP$/)
IsValidName(procName) == procName[1] \in Domains

VARIABLES
  files,                 \* the base directory: name -> [loc, calls]
  rootOf,                \* run -> the procedure whose file the run was given
  pc,                    \* run -> position of analyzeProcedureChain
  nodes,                 \* run -> the run's node list
  edges,                 \* run -> the run's edge list
  processedNodeIds,      \* run -> the run's processedNodeIds
  visitedProcedures,     \* the service's visitedProcedures
  processingProcedures,  \* the service's processingProcedures: name -> promise
  tasks,                 \* run -> the expansions (async closures) the run started
  frames,                \* run -> the processProceduresByDomain invocations
  cycles,                \* run -> the result of detectCycles
  chain                  \* run -> the returned ProcedureChain (nodes, edges, root)

vars == <<files, rootOf, pc, nodes, edges, processedNodeIds, visitedProcedures,
          processingProcedures, tasks, frames, cycles, chain>>

\* ProcedureChainService's caches and the clock they are stamped with
VARIABLES
  now,                   \* Date.now()
  fileCache,             \* the service's fileCache: key -> entry or Null
  directoryCache,        \* the service's directoryCache: path -> entry or Null
  lookups,               \* the findProcedureFile / readSqlFile calls in flight
  cacheAnswer            \* what the last lookup was answered from

\* SqlParserService.analyzeDirectory
VARIABLES
  filesData,             \* what readDirectory returned, in scan order
  showAllDependencies,   \* the service's showAllDependencies
  parsed,                \* the ParsedDirectoryResult, or Null
  disk,                  \* the directory tree the main process reads
  scanned,               \* what the fs:readDirectory handler returned
  dirCalls               \* the analyzeDirectory calls made on one service

\* the two resolvers of a file name
VARIABLES
  fileName,              \* the file name given to both
  spDetails,             \* result of extractSpDetailsFromName
  procedureInfo          \* result of extractProcedureInfo

\* removeSqlComments and findExecCalls
VARIABLES
  originalContent,       \* the text given
  cleanedContent,        \* removeSqlComments(originalContent)
  stripCount,            \* how often removeSqlComments was applied
  execCalls              \* findExecCalls(originalContent)

Null == "null"

cacheVars == <<now, fileCache, directoryCache, lookups, cacheAnswer>>
dirVars == <<filesData, showAllDependencies, parsed, disk, scanned, dirCalls>>
nameVars == <<fileName, spDetails, procedureInfo>>
textVars == <<originalContent, cleanedContent, stripCount, execCalls>>

\* the parts of the program a specification does not exercise stay as
\* constructed
CacheIdle ==
  /\ now = 0
  /\ fileCache = <<>>
  /\ directoryCache = <<>>
  /\ lookups = <<>>
  /\ cacheAnswer = <<>>
ScanIdle == disk = <<>> /\ scanned = [state |-> "idle"] /\ dirCalls = <<>>
DirIdle ==
  /\ filesData = <<>> /\ showAllDependencies = TRUE /\ parsed = [state |-> "idle"]
  /\ ScanIdle
NameIdle == fileName = <<>> /\ spDetails = <<>> /\ procedureInfo = <<>>
TextIdle ==
  originalContent = <<>> /\ cleanedContent = <<>> /\ stripCount = 0 /\ execCalls = <<>>

\* ---------------------------------------------------------------- helpers
Range(s) == {s[i] : i \in 1..Len(s)}

\* Array.prototype.indexOf, 1-based, 0 when absent
IndexOf(s, x) ==
  IF \E i \in 1..Len(s) : s[i] = x
  THEN CHOOSE i \in 1..Len(s) : s[i] = x /\ \A j \in 1..(i - 1) : s[j] # x
  ELSE 0

\* all subsets of S with at most k elements
RECURSIVE KSubsets(_, _)
KSubsets(S, k) ==
  IF k = 0 THEN {{}}
  ELSE LET prev == KSubsets(S, k - 1)
       IN  prev \cup {s \cup {x} : s \in prev, x \in S}

\* the elements of the set S as a list in the order of SortedNames, or in the
\* opposite order
RECURSIVE Listed(_, _, _)
Listed(S, k, rev) ==
  IF k > Len(SortedNames) THEN <<>>
  ELSE LET here == IF SortedNames[k] \in S THEN <<SortedNames[k]>> ELSE <<>>
           rest == Listed(S, k + 1, rev)
       IN  IF rev THEN rest \o here ELSE here \o rest

\* the names reachable from the set S along the references of the set E
RECURSIVE ReachFrom(_, _)
ReachFrom(S, E) ==
  LET more == S \cup {e[2] : e \in {d \in E : d[1] \in S}}
  IN  IF more = S THEN S ELSE ReachFrom(more, E)

\* ------------------------------------------------------- the file system
\* where the file of a procedure lies: at the top of the base directory, in a
\* subdirectory of it, nowhere, or at the top with empty content
Locs == {"top", "sub", "none", "empty"}

NullPath == <<"null", R>>
NoContent == [ok |-> FALSE, calls |-> <<>>]

\* the call graphs of the model: at most MaxRefs references, at most MaxCalls
\* per file, every calling file reachable from the root R (the other files
\* never take part in a run)
RefSets ==
  {E \in KSubsets(Names \X Targets, MaxRefs) :
     /\ \A n \in Names : Cardinality({e \in E : e[1] = n}) <= MaxCalls
     /\ \A e \in E : e[1] \in ReachFrom({R}, E)}

\* the files that are not plainly at the top of the base directory: at most
\* MaxOffTop of the files that take part in a run
OffTops(E) ==
  UNION {[S -> Locs \ {"top"}] :
           S \in KSubsets(({R} \cup {e[2] : e \in E}) \ {X}, MaxOffTop)}

FileSystems ==
  UNION {{[n \in Names |->
            [loc |-> IF n \in DOMAIN off THEN off[n] ELSE "top",
             calls |-> Listed({e[2] : e \in {d \in E : d[1] = n}}, 1, rev)]] :
          rev \in BOOLEAN, off \in OffTops(E)} : E \in RefSets}

\* -------------------------------------------------------------- the walker
ProcedureNode(id, filePath, calls, level, isRoot, isMissing) ==
  [id |-> id, domain |-> DomainOf(id), filePath |-> filePath, calls |-> calls,
   level |-> level, isRoot |-> isRoot, isMissing |-> isMissing]

\* findProcedureFile: the path of the exact match in the listing of the base
\* directory (relative to it), else the "[Virtual] <name>.sql" path; on no
\* path of the function is the result null
findProcedureFile(procedureName) ==
  CASE files[procedureName].loc = "top"   -> <<"top", procedureName>>
    [] files[procedureName].loc = "empty" -> <<"top", procedureName>>
    [] files[procedureName].loc = "sub"   -> <<"sub", procedureName>>
    [] OTHER                              -> <<"virtual", procedureName>>

\* readSqlFile: the content of the file, represented by what findExecCalls
\* returns for it.  A path without directory part is looked up in the listing
\* of the selected directory; a path with a directory part has that directory
\* read, which for an absolute path ("abs", the root) is the file's own
\* directory and for a relative one ("sub") is no directory of the scan;
\* an empty content is falsy and counts as no content
readSqlFile(filePath) ==
  LET f == files[filePath[2]]
  IN  CASE filePath[1] = "abs" /\ f.loc \in {"top", "sub"} ->
             [ok |-> TRUE, calls |-> f.calls]
        [] filePath[1] = "top" /\ f.loc = "top" ->
             [ok |-> TRUE, calls |-> f.calls]
        [] OTHER -> NoContent

\* findExecCalls on the synthetic content made for a virtual file
\* (CREATE PROCEDURE <name> AS BEGIN SELECT 1; END): the only name in it is
\* the one defined, which pass 5 excludes
SyntheticCalls(procName) == <<>>

\* no name ever counts as processed
NeverProcessed(processed, procName) == FALSE

\* processProceduresByDomain, line 499: if (processedNodeIds.has(procName))
AlreadyProcessed(processed, procName) == procName \in processed

\* no name ever counts as being handled
NeverProcessing(processing, procName) == FALSE

\* processProceduresByDomain, line 504: if (this.processingProcedures.has(procName))
AlreadyProcessing(processing, procName) == processing[procName] # NoPromise

\* processProceduresByDomain, line 513: if (this.visitedProcedures.has(procName))
AlreadyVisited(visited, procName) == procName \in visited

\* the first index from i on of a name not yet in processedNodeIds, 0 if none
RECURSIVE NextUnprocessed(_, _, _)
NextUnprocessed(names, i, processed) ==
  IF i > Len(names) THEN 0
  ELSE IF AlreadyProcessed(processed, names[i])
       THEN NextUnprocessed(names, i + 1, processed)
       ELSE i

\* processProceduresByDomain: the loop of frame fid of run c from index
\* `from` up to its next await.  ctx holds the run's edges, frames, tasks and
\* the service's processingProcedures.  Starting the closure of a name runs it
\* up to its await of findProcedureFile (or to its early return), then the
\* promise is put into processingProcedures and awaited.
processProceduresByDomain(ctx, c, fid, from, processed, visited) ==
  LET f == ctx.frames[fid]
      j == NextUnprocessed(f.names, from, processed)
  IN  IF j = 0
      THEN [ctx EXCEPT !.frames[fid] = [f EXCEPT !.st = "done", !.i = Len(f.names) + 1]]
      ELSE LET procName == f.names[j]
               tid == Len(ctx.tasks) + 1
           IN  IF AlreadyProcessing(ctx.processing, procName)
               THEN [ctx EXCEPT !.frames[fid] =
                       [f EXCEPT !.st = "waitOther", !.i = j,
                                 !.awaited = ctx.processing[procName]]]
               ELSE [ctx EXCEPT
                       !.tasks = Append(@,
                          [name |-> procName, level |-> f.level, node |-> 0, owner |-> fid,
                           filePath |-> NullPath,
                           st |-> IF AlreadyVisited(visited, procName)
                                  THEN "skipped" ELSE "lookup"]),
                       !.processing[procName] = <<c, tid>>,
                       !.frames[fid] =
                          [f EXCEPT !.st = "waitOwn", !.i = j, !.awaited = <<c, tid>>]]

\* every called name gets an edge
EdgeWantedAlways(procName) == TRUE

\* processCalledProcedures, line 443: a called name that is no procedure name
\* gets no edge
EdgeWanted(procName) == IsValidName(procName)

\* processCalledProcedures, line 390: the default of the level parameter, used
\* for the callees of the root
FirstLevel == 1

\* the callees get the level of their caller
ChildLevelSame(level) == level

\* processProceduresByDomain, line 582: the callees are one level deeper
ChildLevel(level) == level + 1

\* processCalledProcedures, lines 440-464: one edge per valid called name,
\* unless an edge with the same id (`edge-<from>-<to>`) exists
RECURSIVE AddEdges(_, _, _, _)
AddEdges(edgeList, parentId, calls, k) ==
  IF k > Len(calls) THEN edgeList
  ELSE LET procName == calls[k]
           exists == \E i \in 1..Len(edgeList) :
                        edgeList[i].from = parentId /\ edgeList[i].to = procName
           next == IF EdgeWanted(procName) /\ ~exists
                   THEN Append(edgeList,
                          [from |-> parentId, to |-> procName,
                           isCrossDomain |-> DomainOf(parentId) # DomainOf(procName)])
                   ELSE edgeList
       IN  CHOOSE r \in {AddEdges(e, parentId, calls, k + 1) : e \in {next}} : TRUE

\* callsByDomain[domain], lines 425-438
CallsByDomain(calls, domain) ==
  SelectSeq(calls, LAMBDA p : IsValidName(p) /\ DomainOf(p) = domain)

\* processCalledProcedures, lines 466-476: one processProceduresByDomain per
\* domain group, each run up to its first await
RECURSIVE StartGroups(_, _, _, _, _, _, _, _)
StartGroups(ctx, c, parTid, calls, level, processed, visited, k) ==
  IF k > Len(DomainSeq) THEN ctx
  ELSE LET group == CallsByDomain(calls, DomainSeq[k])
           fid == Len(ctx.frames) + 1
           withFrame == [ctx EXCEPT !.frames = Append(@,
                           [par |-> parTid, domain |-> DomainSeq[k], names |-> group,
                            i |-> 1, level |-> level, st |-> "run",
                            awaited |-> NoPromise])]
           next == IF group = <<>> THEN ctx
                   ELSE processProceduresByDomain(withFrame, c, fid, 1, processed, visited)
       IN  CHOOSE r \in {StartGroups(x, c, parTid, calls, level, processed, visited, k + 1) :
                          x \in {next}} : TRUE

\* processCalledProcedures up to its await of Promise.all
processCalledProcedures(ctx, c, parTid, parentId, calls, level, processed, visited) ==
  CHOOSE r \in {StartGroups(x, c, parTid, calls, level, processed, visited, 1) :
                  x \in {[ctx EXCEPT !.edges = AddEdges(@, parentId, calls, 1)]}} : TRUE

\* ------------------------------------------------------- cycle detection
\* nodeMap.get(id): the map is filled in list order, a later node replaces
\* an earlier one with the same id
NodeMapHas(nodeList, id) == \E i \in 1..Len(nodeList) : nodeList[i].id = id

NodeMapGet(nodeList, id) ==
  nodeList[CHOOSE i \in 1..Len(nodeList) :
             nodeList[i].id = id /\ \A j \in (i + 1)..Len(nodeList) : nodeList[j].id # id]

\* Array.prototype.sort() on a list of names
RECURSIVE SortNames(_, _)
SortNames(s, k) ==
  IF k > Len(SortedNames) THEN <<>>
  ELSE SelectSeq(s, LAMBDA x : x = SortedNames[k]) \o SortNames(s, k + 1)

\* dfsDetectCycles, line 1321: cycleProcedures.sort() sorts the array in
\* place, and it is the array the Cycle holds as `procedures`
CycleProceduresKept(cycleProcedures) == SortNames(cycleProcedures, 1)

\* dfsDetectCycles, lines 1321-1322: the key two cycles are compared by
CycleKey(cycleProcedures) == SortNames(cycleProcedures, 1)

\* position 0 of the path (1 here) taken for "not found"
CycleStartFoundAfterFirst(cycleStartIndex) == cycleStartIndex > 1

\* dfsDetectCycles, line 1300: if (cycleStartIndex !== -1); indexOf is 1-based
\* here, with 0 for "not found"
CycleStartFound(cycleStartIndex) == cycleStartIndex # 0

\* dfsDetectCycles, lines 1297-1328: the node is on the current path
RecordCycle(acc, nodeList, currentId, path) ==
  LET cycleStartIndex == IndexOf(path, currentId)
      cycleProcedures == SubSeq(path, cycleStartIndex, Len(path)) \o <<currentId>>
      domains == {NodeMapGet(nodeList, p).domain :
                    p \in {q \in Range(cycleProcedures) : NodeMapHas(nodeList, q)}}
      cycle == [procedures |-> CycleProceduresKept(cycleProcedures),
                domains |-> domains,
                isCrossDomain |-> Cardinality(domains) > 1]
      known == \E i \in 1..Len(acc.allCycles) :
                 CycleKey(acc.allCycles[i].procedures) = CycleKey(cycleProcedures)
  IN  IF ~CycleStartFound(cycleStartIndex) \/ known THEN acc
      ELSE [acc EXCEPT !.allCycles = Append(@, cycle)]

\* dfsDetectCycles; acc = [allCycles, globalVisited].  visited and path are
\* as they were when a call returns (it pops what it pushed), so they are
\* passed by value.  DfsCalls is the loop over currentNode.calls.
RECURSIVE dfsDetectCycles(_, _, _, _, _)
RECURSIVE DfsCalls(_, _, _, _, _, _)
dfsDetectCycles(acc, nodeList, currentId, visited, path) ==
  LET marked == [acc EXCEPT !.globalVisited = @ \cup {currentId}]
  IN  IF currentId \in visited
      THEN RecordCycle(marked, nodeList, currentId, path)
      ELSE IF ~NodeMapHas(nodeList, currentId) THEN marked
      ELSE DfsCalls(marked, nodeList, NodeMapGet(nodeList, currentId).calls, 1,
                    visited \cup {currentId}, Append(path, currentId))

DfsCalls(acc, nodeList, calls, k, visited, path) ==
  IF k > Len(calls) THEN acc
  ELSE CHOOSE r \in {DfsCalls(a, nodeList, calls, k + 1, visited, path) :
                      a \in {IF NodeMapHas(nodeList, calls[k])
                              THEN dfsDetectCycles(acc, nodeList, calls[k], visited, path)
                              ELSE acc}} : TRUE

\* detectCycles: one search from every node not reached by an earlier one
RECURSIVE DetectFrom(_, _, _)
DetectFrom(acc, nodeList, k) ==
  IF k > Len(nodeList) THEN acc
  ELSE CHOOSE r \in {DetectFrom(a, nodeList, k + 1) :
                      a \in {IF nodeList[k].id \in acc.globalVisited THEN acc
                              ELSE dfsDetectCycles(acc, nodeList, nodeList[k].id, {}, <<>>)}} : TRUE

detectCycles(nodeList) ==
  DetectFrom([allCycles |-> <<>>, globalVisited |-> {}], nodeList, 1).allCycles

\* ------------------------------------------------------------ the actions
\* createEmptyChainMetrics, lines 332-344 (the fields read here)
createEmptyChainMetrics ==
  [cyclomaticComplexity |-> 0, domainCouplingScore |-> 0,
   hotspotProcedures |-> <<>>, domains |-> <<>>]

Max(a, b) == IF a >= b THEN a ELSE b
Min(a, b) == IF a <= b THEN a ELSE b

\* Op applied to the value, which is computed once
Bind(value, Op(_)) == CHOOSE r \in {Op(v) : v \in {value}} : TRUE

\* the elements of the first k places of a list without the later repetitions
RECURSIVE DistinctUpTo(_, _)
DistinctUpTo(s, k) ==
  IF k = 0 THEN <<>>
  ELSE Bind(DistinctUpTo(s, k - 1),
            LAMBDA front : IF \E i \in 1..Len(front) : front[i] = s[k]
                           THEN front ELSE Append(front, s[k]))

\* the elements of a list without the later repetitions
Distinct(s) == Bind(s \o <<>>, LAMBDA list : DistinctUpTo(list, Len(list)))

\* the ids of the nodes from i on that name `id` among their calls
RECURSIVE CallerIds(_, _, _)
CallerIds(nodeList, id, i) ==
  IF i > Len(nodeList) THEN <<>>
  ELSE (IF \E k \in 1..Len(nodeList[i].calls) : nodeList[i].calls[k] = id
        THEN <<nodeList[i].id>> ELSE <<>>) \o CallerIds(nodeList, id, i + 1)

\* buildCalledByReferences, lines 349-383: calledBy of the node j is the ids
\* of the nodes that name it among their calls, each once, in list order;
\* nodeMap.get gives the last node of an id, an earlier node of the same id
\* keeps an empty calledBy
CalledBy(nodeList, j) ==
  IF \E l \in (j + 1)..Len(nodeList) : nodeList[l].id = nodeList[j].id THEN <<>>
  ELSE Distinct(CallerIds(nodeList, nodeList[j].id, 1))

buildCalledByReferences(nodeList) ==
  [j \in 1..Len(nodeList) |->
     [id |-> nodeList[j].id, domain |-> nodeList[j].domain,
      filePath |-> nodeList[j].filePath, calls |-> nodeList[j].calls,
      level |-> nodeList[j].level, isRoot |-> nodeList[j].isRoot,
      isMissing |-> nodeList[j].isMissing, calledBy |-> CalledBy(nodeList, j)]]
  \o <<>>

\* calculateChainMetrics, line 1072: .slice(0, 5)
HotspotLimit == 5

\* calculateChainMetrics, lines 1060-1067: the entries of procedureCounts, a
\* Map keyed by node id: one entry per id, at the place of its first node,
\* with the count of its last node
ProcedureCounts(nodeList) ==
  Bind(Distinct([j \in 1..Len(nodeList) |-> nodeList[j].id]),
       LAMBDA ids :
         [e \in 1..Len(ids) |->
            [id |-> ids[e], count |-> Len(NodeMapGet(nodeList, ids[e]).calledBy)]]
         \o <<>>)

\* the entries are left in the order of the map
EntriesInMapOrder(entries, count) == entries

\* calculateChainMetrics, line 1071: .sort((a, b) => b[1] - a[1]), a stable
\* sort: the entries with the count `count` and less, larger counts first
RECURSIVE SortedEntries(_, _)
SortedEntries(entries, count) ==
  IF count < 0 THEN <<>>
  ELSE SelectSeq(entries, LAMBDA e : e.count = count) \o SortedEntries(entries, count - 1)

\* calculateChainMetrics, lines 1070-1073
HotspotProcedures(nodeList) ==
  Bind(ProcedureCounts(nodeList),
       LAMBDA entries :
         Bind(SortedEntries(entries, Len(nodeList)),
              LAMBDA sorted :
                [e \in 1..Min(HotspotLimit, Len(sorted)) |-> sorted[e].id] \o <<>>))

\* nodes.find(n => n.id === id): the first node of the id
NodeFind(nodeList, id) ==
  nodeList[CHOOSE i \in 1..Len(nodeList) :
             nodeList[i].id = id /\ \A j \in 1..(i - 1) : nodeList[j].id # id]

\* no edge is counted
EdgeNeverCounted(nodeList, e) == FALSE

\* calculateChainMetrics, lines 1099-1102: both ends of the edge are nodes
EdgeCounted(nodeList, e) == NodeMapHas(nodeList, e.from) /\ NodeMapHas(nodeList, e.to)

\* the number of edges that the loop of lines 1097-1116 counts as `kind`
\* for the domain
CallCount(nodeList, edgeList, domain, kind) ==
  Cardinality({k \in 1..Len(edgeList) :
    /\ EdgeCounted(nodeList, edgeList[k])
    /\ LET source == NodeFind(nodeList, edgeList[k].from).domain
           target == NodeFind(nodeList, edgeList[k].to).domain
       IN  CASE kind = "internal" -> source = domain /\ target = domain
             [] kind = "outbound" -> source = domain /\ target # domain
             [] kind = "inbound"  -> source # domain /\ target = domain})

\* the outbound calls are not divided by the number of calls
CouplingUndivided(internalCalls, outboundCalls, inboundCalls) ==
  [num |-> 100 * outboundCalls, den |-> 1]

\* calculateChainMetrics, lines 1119-1124: (outbound / total) * 100, or 0;
\* the number is kept as the fraction num / den
CouplingScore(internalCalls, outboundCalls, inboundCalls) ==
  IF internalCalls + outboundCalls > 0
  THEN [num |-> 100 * outboundCalls, den |-> internalCalls + outboundCalls]
  ELSE [num |-> 0, den |-> 1]

\* calculateChainMetrics, lines 1076-1124: the values of domainMap, in the
\* order the domains come up in the node list
DomainMetrics(nodeList, edgeList) ==
  Bind(Distinct([j \in 1..Len(nodeList) |-> nodeList[j].domain]),
       LAMBDA names :
         [d \in 1..Len(names) |->
            LET internal == CallCount(nodeList, edgeList, names[d], "internal")
                outbound == CallCount(nodeList, edgeList, names[d], "outbound")
                inbound == CallCount(nodeList, edgeList, names[d], "inbound")
            IN  [name |-> names[d],
                 procedureCount |->
                    Cardinality({j \in 1..Len(nodeList) : nodeList[j].domain = names[d]}),
                 inboundCalls |-> inbound, outboundCalls |-> outbound,
                 internalCalls |-> internal,
                 couplingScore |-> CouplingScore(internal, outbound, inbound)]]
         \o <<>>)

\* calculateChainMetrics, lines 1127-1133: the sum of couplingScore *
\* procedureCount over the domains from d on, as a fraction
RECURSIVE WeightedCouplingSum(_, _)
WeightedCouplingSum(domains, d) ==
  IF d > Len(domains) THEN [num |-> 0, den |-> 1]
  ELSE Bind(WeightedCouplingSum(domains, d + 1),
            LAMBDA rest :
              LET score == domains[d].couplingScore
              IN  [num |-> score.num * domains[d].procedureCount * rest.den
                             + rest.num * score.den,
                   den |-> score.den * rest.den])

\* parseFloat(x.toFixed(2)) of the fraction num / den, in hundredths
ToFixed2(num, den) == (200 * num + den) \div (2 * den)

\* calculateChainMetrics, lines 1127-1146: the weighted average of the
\* scores, rounded to two places; in hundredths
DomainCouplingScore(domains, totalProcedures) ==
  IF totalProcedures > 0
  THEN Bind(WeightedCouplingSum(domains, 1),
            LAMBDA sum : ToFixed2(sum.num, sum.den * totalProcedures))
  ELSE 0

\* calculateChainMetrics, lines 1033-1153, on the nodes with their calledBy
calculateChainMetrics(nodeList, edgeList) ==
  CHOOSE r \in
    {[cyclomaticComplexity |-> Max(1, Len(edgeList) - Len(nodeList) + 2),
      domainCouplingScore |-> DomainCouplingScore(domains, Len(nodeList)),
      hotspotProcedures |-> HotspotProcedures(nodeList),
      domains |-> domains] : domains \in {DomainMetrics(nodeList, edgeList)}} : TRUE

\* the search ends at a node already on the path, without the call to it
RECURSIVE SimpleCallDepthFrom(_, _, _)
SimpleCallDepthFrom(nodeList, id, visited) ==
  Bind(NodeMapGet(nodeList, id).calls,
       LAMBDA calls :
         Bind({IF NodeMapHas(nodeList, calls[k]) /\ calls[k] \notin visited \cup {id}
               THEN 1 + SimpleCallDepthFrom(nodeList, calls[k], visited \cup {id})
               ELSE 0 : k \in 1..Len(calls)},
              LAMBDA depths :
                IF depths = {} THEN 0
                ELSE CHOOSE m \in depths : \A n \in depths : n <= m))

\* calculateMaxCallDepthFrom, lines 1212-1235; every call gets its own copy
\* of visited
RECURSIVE calculateMaxCallDepthFrom(_, _, _)
calculateMaxCallDepthFrom(nodeList, id, visited) ==
  IF id \in visited THEN 0
  ELSE Bind(NodeMapGet(nodeList, id).calls,
            LAMBDA calls :
              Bind({IF NodeMapHas(nodeList, calls[k])
                    THEN 1 + calculateMaxCallDepthFrom(nodeList, calls[k],
                                                       visited \cup {id})
                    ELSE 0 : k \in 1..Len(calls)},
                   LAMBDA depths :
                     IF depths = {} THEN 0
                     ELSE CHOOSE m \in depths : \A n \in depths : n <= m))

\* calculateProcedureMetrics, lines 1158-1205: the metrics set on every node
\* (the fields read here)
calculateProcedureMetrics(nodeList) ==
  [j \in 1..Len(nodeList) |->
     [id |-> nodeList[j].id, domain |-> nodeList[j].domain,
      filePath |-> nodeList[j].filePath, calls |-> nodeList[j].calls,
      level |-> nodeList[j].level, isRoot |-> nodeList[j].isRoot,
      isMissing |-> nodeList[j].isMissing, calledBy |-> nodeList[j].calledBy,
      metrics |-> [callDepth |-> calculateMaxCallDepthFrom(nodeList, nodeList[j].id, {}),
                   callerCount |-> Len(nodeList[j].calledBy),
                   calleeCount |-> Len(nodeList[j].calls)]]]

\* the chain returned at lines 139-145 and 153-159
EmptyChain ==
  [nodes |-> <<>>, edges |-> <<>>, rootProcedure |-> NullPath, cycles |-> <<>>,
   metrics |-> createEmptyChainMetrics]

Ctx(c) == [edges |-> edges[c], frames |-> frames[c], tasks |-> tasks[c],
           processing |-> processingProcedures]

\* the promise <<run, task>> is settled: the closure returned early, or it
\* is past its own awaits and every processProceduresByDomain that its
\* processCalledProcedures awaits has returned
Resolved(p) ==
  LET t == tasks[p[1]][p[2]]
  IN  \/ t.st = "skipped"
      \/ /\ t.st = "children"
         /\ \A i \in 1..Len(frames[p[1]]) :
              frames[p[1]][i].par = p[2] => frames[p[1]][i].st = "done"

Install(c, ctx) ==
  /\ edges' = [edges EXCEPT ![c] = ctx.edges]
  /\ frames' = [frames EXCEPT ![c] = ctx.frames]
  /\ tasks' = [tasks EXCEPT ![c] = ctx.tasks]
  /\ processingProcedures' = ctx.processing

\* analyzeProcedureChain, lines 108-136: up to the await of readSqlFile
AnalyzeProcedureChain(c) ==
  /\ UNCHANGED <<cacheVars, dirVars, nameVars, textVars>>
  /\ pc[c] = "idle"
  /\ visitedProcedures' = {}
  /\ pc' = [pc EXCEPT ![c] = "readRoot"]
  /\ UNCHANGED <<files, rootOf, nodes, edges, processedNodeIds,
                 processingProcedures, tasks, frames, cycles, chain>>

\* analyzeProcedureChain, lines 136-187: the root file was read
RootRead(c) ==
  /\ UNCHANGED <<cacheVars, dirVars, nameVars, textVars>>
  /\ pc[c] = "readRoot"
  /\ LET sqlContent == readSqlFile(<<"abs", rootOf[c]>>)
         rootNode == ProcedureNode(rootOf[c], <<"abs", rootOf[c]>>,
                                   sqlContent.calls, 0, TRUE, FALSE)
     IN  IF ~sqlContent.ok
         THEN /\ pc' = [pc EXCEPT ![c] = "done"]
              /\ chain' = [chain EXCEPT ![c] = EmptyChain]
              /\ UNCHANGED <<nodes, edges, processedNodeIds, visitedProcedures,
                             processingProcedures, tasks, frames>>
         ELSE /\ pc' = [pc EXCEPT ![c] = "expanding"]
              /\ nodes' = [nodes EXCEPT ![c] = Append(@, rootNode)]
              /\ processedNodeIds' = [processedNodeIds EXCEPT ![c] = @ \cup {rootNode.id}]
              /\ visitedProcedures' = visitedProcedures \cup {rootNode.id}
              /\ \E done \in {processCalledProcedures(Ctx(c), c, 0, rootNode.id,
                               rootNode.calls, FirstLevel,
                               processedNodeIds[c] \cup {rootNode.id},
                               visitedProcedures \cup {rootNode.id})} : Install(c, done)
              /\ UNCHANGED chain
  /\ UNCHANGED <<files, rootOf, cycles>>

\* the closure of processProceduresByDomain, lines 520-570: findProcedureFile
\* returned; the node is created, and for a virtual path its synthetic
\* content is scanned at once, for a real one readSqlFile is awaited
LookupDone(c, tid) ==
  /\ UNCHANGED <<cacheVars, dirVars, nameVars, textVars>>
  /\ tid \in 1..Len(tasks[c])
  /\ tasks[c][tid].st = "lookup"
  /\ LET t == tasks[c][tid]
         procedureFilePath == findProcedureFile(t.name)
         isMissing == procedureFilePath = NullPath
         filePath == IF procedureFilePath = NullPath
                     THEN <<"virtual", t.name>> ELSE procedureFilePath
         synthetic == filePath[1] = "virtual" \/ isMissing
         calls == IF synthetic THEN SyntheticCalls(t.name) ELSE <<>>
         node == ProcedureNode(t.name, filePath, calls, t.level, FALSE, isMissing)
         ctx == [Ctx(c) EXCEPT !.tasks[tid] =
                    [t EXCEPT !.st = IF synthetic THEN "children" ELSE "read",
                              !.node = Len(nodes[c]) + 1, !.filePath = filePath]]
     IN  /\ nodes' = [nodes EXCEPT ![c] = Append(@, node)]
         /\ processedNodeIds' = [processedNodeIds EXCEPT ![c] = @ \cup {t.name}]
         /\ visitedProcedures' = visitedProcedures \cup {t.name}
         /\ \E done \in {IF synthetic /\ Len(calls) > 0
                          THEN processCalledProcedures(ctx, c, tid, t.name, calls,
                                  ChildLevel(t.level), processedNodeIds[c] \cup {t.name},
                                  visitedProcedures \cup {t.name})
                          ELSE ctx} : Install(c, done)
  /\ UNCHANGED <<files, rootOf, pc, cycles, chain>>

\* the closure of processProceduresByDomain, lines 569-584: readSqlFile
\* returned; with a content the calls are stored in the node and expanded
ReadDone(c, tid) ==
  /\ UNCHANGED <<cacheVars, dirVars, nameVars, textVars>>
  /\ tid \in 1..Len(tasks[c])
  /\ tasks[c][tid].st = "read"
  /\ LET t == tasks[c][tid]
         sqlContent == readSqlFile(t.filePath)
         ctx == [Ctx(c) EXCEPT !.tasks[tid].st = "children"]
     IN  IF sqlContent.ok
         THEN /\ nodes' = [nodes EXCEPT ![c][t.node].calls = sqlContent.calls]
              /\ \E done \in {IF Len(sqlContent.calls) > 0
                               THEN processCalledProcedures(ctx, c, tid, t.name,
                                       sqlContent.calls, ChildLevel(t.level),
                                       processedNodeIds[c], visitedProcedures)
                               ELSE ctx} : Install(c, done)
         ELSE /\ nodes' = nodes
              /\ Install(c, ctx)
  /\ UNCHANGED <<files, rootOf, pc, processedNodeIds, visitedProcedures, cycles, chain>>

\* processProceduresByDomain, lines 596-600: the promise the frame made is
\* settled; the name is removed from processingProcedures and the loop goes on
ResumeOwn(c, fid) ==
  /\ UNCHANGED <<cacheVars, dirVars, nameVars, textVars>>
  /\ fid \in 1..Len(frames[c])
  /\ frames[c][fid].st = "waitOwn"
  /\ Resolved(frames[c][fid].awaited)
  /\ LET f == frames[c][fid]
         ctx == [Ctx(c) EXCEPT !.processing[f.names[f.i]] = NoPromise]
     IN  \E done \in {processProceduresByDomain(ctx, c, fid, f.i + 1,
                          processedNodeIds[c], visitedProcedures)} : Install(c, done)
  /\ UNCHANGED <<files, rootOf, pc, nodes, processedNodeIds, visitedProcedures,
                 cycles, chain>>

\* processProceduresByDomain, lines 504-508: the promise of another frame that
\* was awaited is settled; the loop goes on with the next name
ResumeOther(c, fid) ==
  /\ UNCHANGED <<cacheVars, dirVars, nameVars, textVars>>
  /\ fid \in 1..Len(frames[c])
  /\ frames[c][fid].st = "waitOther"
  /\ Resolved(frames[c][fid].awaited)
  /\ \E done \in {processProceduresByDomain(Ctx(c), c, fid, frames[c][fid].i + 1,
                       processedNodeIds[c], visitedProcedures)} : Install(c, done)
  /\ UNCHANGED <<files, rootOf, pc, nodes, processedNodeIds, visitedProcedures,
                 cycles, chain>>

\* analyzeProcedureChain, lines 187-209: Promise.all of the root's groups is
\* settled; the cycles are detected and the chain is returned
Finish(c) ==
  /\ UNCHANGED <<cacheVars, dirVars, nameVars, textVars>>
  /\ pc[c] = "expanding"
  /\ \A i \in 1..Len(frames[c]) : frames[c][i].par = 0 => frames[c][i].st = "done"
  /\ pc' = [pc EXCEPT ![c] = "done"]
  /\ \E found \in {detectCycles(nodes[c])},
        linked \in {buildCalledByReferences(nodes[c])} :
       /\ cycles' = [cycles EXCEPT ![c] = found]
       /\ chain' = [chain EXCEPT ![c] =
                      [nodes |-> calculateProcedureMetrics(linked), edges |-> edges[c],
                       rootProcedure |-> rootOf[c], cycles |-> found,
                       metrics |-> calculateChainMetrics(linked, edges[c])]]
  /\ UNCHANGED <<files, rootOf, nodes, edges, processedNodeIds, visitedProcedures,
                 processingProcedures, tasks, frames>>

\* detectCycles applied to a node list
DetectCycles(c) ==
  /\ UNCHANGED <<cacheVars, dirVars, nameVars, textVars>>
  /\ pc[c] = "nodes"
  /\ pc' = [pc EXCEPT ![c] = "detected"]
  /\ \E found \in {detectCycles(nodes[c])} : cycles' = [cycles EXCEPT ![c] = found]
  /\ UNCHANGED <<files, rootOf, nodes, edges, processedNodeIds, visitedProcedures,
                 processingProcedures, tasks, frames, chain>>

InitService ==
  /\ nodes = [c \in Runs |-> <<>>]
  /\ edges = [c \in Runs |-> <<>>]
  /\ processedNodeIds = [c \in Runs |-> {}]
  /\ visitedProcedures = {}
  /\ processingProcedures = [n \in Names |-> NoPromise]
  /\ tasks = [c \in Runs |-> <<>>]
  /\ frames = [c \in Runs |-> <<>>]
  /\ cycles = [c \in Runs |-> <<>>]
  /\ chain = [c \in Runs |-> EmptyChain]

\* one analyzeProcedureChain call on a fresh service; the file given is one
\* the directory scan listed
Init ==
  /\ files \in FileSystems
  /\ files[R].loc # "none"
  /\ rootOf = [c \in Runs |-> R]
  /\ pc = [c \in Runs |-> IF c = 1 THEN "idle" ELSE "off"]
  /\ InitService
  /\ CacheIdle /\ DirIdle /\ NameIdle /\ TextIdle

Next ==
  \E c \in Runs :
    \/ AnalyzeProcedureChain(c)
    \/ RootRead(c)
    \/ \E tid \in 1..Len(tasks[c]) : LookupDone(c, tid)
    \/ \E tid \in 1..Len(tasks[c]) : ReadDone(c, tid)
    \/ \E fid \in 1..Len(frames[c]) : ResumeOwn(c, fid)
    \/ \E fid \in 1..Len(frames[c]) : ResumeOther(c, fid)
    \/ Finish(c)

Spec == Init /\ [][Next]_vars

\* two analyzeProcedureChain calls on the same service, for the same file
InitOverlap ==
  /\ files \in FileSystems
  /\ \A n \in Names : files[n].loc = "top" /\ X \notin Range(files[n].calls)
  /\ rootOf = [c \in Runs |-> R]
  /\ pc = [c \in Runs |-> "idle"]
  /\ InitService
  /\ CacheIdle /\ DirIdle /\ NameIdle /\ TextIdle

SpecOverlap == InitOverlap /\ [][Next]_vars

\* largest number of names findExecCalls returns for the root file when the
\* orders of completion are compared
MaxRootCalls == 3

\* the lists of at most k different names out of S
DistinctLists(S, k) ==
  {l \in UNION {[1..len -> S] : len \in 0..k} :
     \A i, j \in 1..Len(l) : l[i] = l[j] => i = j}

\* the base directories whose root file calls up to MaxRootCalls of the
\* other procedures, each of which has a file at the top with at most one
\* call
OrderFileSystems ==
  {[n \in Names |->
      [loc |-> "top", calls |-> IF n = R THEN rootCalls ELSE others[n]]] :
     rootCalls \in DistinctLists(Names \ {R}, MaxRootCalls),
     others \in [Names \ {R} -> {<<>>} \cup {<<n>> : n \in Names \ {R}}]}

\* two analyzeProcedureChain calls for the same file on the same service, the
\* second made when the first has returned
InitOrders ==
  /\ files \in OrderFileSystems
  /\ rootOf = [c \in Runs |-> R]
  /\ pc = [c \in Runs |-> "idle"]
  /\ InitService
  /\ CacheIdle /\ DirIdle /\ NameIdle /\ TextIdle

NextOrders ==
  \/ AnalyzeProcedureChain(1)
  \/ pc[1] = "done" /\ AnalyzeProcedureChain(2)
  \/ \E c \in Runs :
       \/ RootRead(c)
       \/ \E tid \in 1..Len(tasks[c]) : LookupDone(c, tid)
       \/ \E tid \in 1..Len(tasks[c]) : ReadDone(c, tid)
       \/ \E fid \in 1..Len(frames[c]) : ResumeOwn(c, fid)
       \/ \E fid \in 1..Len(frames[c]) : ResumeOther(c, fid)
       \/ Finish(c)

SpecOrders == InitOrders /\ [][NextOrders]_vars

\* the call graphs given to detectCycles: every node reachable from the root
CycleRefSets ==
  {E \in KSubsets(Names \X Names, MaxCycleRefs) :
     /\ \A n \in Names : Cardinality({e \in E : e[1] = n}) <= MaxCalls
     /\ \A e \in E : e[1] \in ReachFrom({R}, E)}

\* the node list of a finished walk over the graph E: the root first; of the
\* fields only id, domain and calls are read by detectCycles
NodeListOf(E, rev) ==
  LET ids == <<R>> \o Listed(ReachFrom({R}, E) \ {R}, 1, FALSE)
  IN  [i \in 1..Len(ids) |->
         ProcedureNode(ids[i], <<"top", ids[i]>>,
                       Listed({e[2] : e \in {d \in E : d[1] = ids[i]}}, 1, rev),
                       IF i = 1 THEN 0 ELSE 1, i = 1, FALSE)]

InitCycles ==
  /\ \E E \in CycleRefSets, rev \in BOOLEAN :
       /\ nodes = [c \in Runs |-> IF c = 1 THEN NodeListOf(E, rev) ELSE <<>>]
       /\ files = [n \in Names |->
                     [loc |-> "top",
                      calls |-> Listed({e[2] : e \in {d \in E : d[1] = n}}, 1, rev)]]
  /\ rootOf = [c \in Runs |-> R]
  /\ pc = [c \in Runs |-> IF c = 1 THEN "nodes" ELSE "off"]
  /\ edges = [c \in Runs |-> <<>>]
  /\ processedNodeIds = [c \in Runs |-> {}]
  /\ visitedProcedures = {}
  /\ processingProcedures = [n \in Names |-> NoPromise]
  /\ tasks = [c \in Runs |-> <<>>]
  /\ frames = [c \in Runs |-> <<>>]
  /\ cycles = [c \in Runs |-> <<>>]
  /\ chain = [c \in Runs |-> EmptyChain]
  /\ CacheIdle /\ DirIdle /\ NameIdle /\ TextIdle

NextCycles == \E c \in Runs : DetectCycles(c)

SpecCycles == InitCycles /\ [][NextCycles]_vars

\* the most nodes of the chains whose metrics are calculated apart from a walk
MaxNodes == 7

\* the names of those chains, the root first
HotNames ==
  <<<<"AA", "H1">>, <<"BB", "H2">>, <<"AA", "H3">>, <<"BB", "H4">>,
    <<"AA", "H5">>, <<"BB", "H6">>, <<"AA", "H7">>, <<"BB", "H8">>>>

\* the level of the node i in the walk in which the node parent[i] found it
RECURSIVE LevelIn(_, _)
LevelIn(parent, i) == IF i = 1 THEN 0 ELSE 1 + LevelIn(parent, parent[i])

\* the calls of the node i to the nodes from k on: to the nodes found
\* through it and to the one of the last two nodes it calls as well
RECURSIVE HotCalls(_, _, _, _, _)
HotCalls(n, parent, extra, i, k) ==
  IF k > n THEN <<>>
  ELSE (IF (k > 1 /\ parent[k] = i) \/ (i <= n - 2 /\ extra[i] = k)
        THEN <<HotNames[k]>> ELSE <<>>) \o HotCalls(n, parent, extra, i, k + 1)

\* the node list of a finished walk over n procedures: the node i > 1 was
\* found through a call of the root or of the node before it, and the
\* nodes other than the last two may call one of the last two as well
HotNodeList(n, parent, extra) ==
  [i \in 1..n |->
     ProcedureNode(HotNames[i], <<"top", HotNames[i]>>, HotCalls(n, parent, extra, i, 1),
                   LevelIn(parent, i), i = 1, FALSE)]

\* the edges processCalledProcedures made for the calls of the nodes from i on
RECURSIVE HotEdges(_, _, _)
HotEdges(edgeList, nodeList, i) ==
  IF i > Len(nodeList) THEN edgeList
  ELSE CHOOSE r \in {HotEdges(e, nodeList, i + 1) :
                      e \in {AddEdges(edgeList, nodeList[i].id, nodeList[i].calls, 1)}} : TRUE

\* the expansion of a chain of 3 to MaxNodes procedures is over
InitHotspots ==
  /\ \E n \in 3..MaxNodes :
       \E viaRoot \in [3..n -> BOOLEAN], extra \in [1..(n - 2) -> {0, n - 1, n}] :
         \E nodeList \in {HotNodeList(n, [i \in 2..n |-> IF i = 2 \/ viaRoot[i]
                                                         THEN 1 ELSE i - 1], extra)} :
              /\ nodes = [c \in Runs |-> IF c = 1 THEN nodeList ELSE <<>>]
              /\ edges = [c \in Runs |-> IF c = 1 THEN HotEdges(<<>>, nodeList, 1) ELSE <<>>]
              /\ processedNodeIds =
                   [c \in Runs |-> IF c = 1 THEN {HotNames[i] : i \in 1..n} ELSE {}]
              /\ visitedProcedures = {HotNames[i] : i \in 1..n}
  /\ files = [m \in Names |-> [loc |-> "none", calls |-> <<>>]]
  /\ rootOf = [c \in Runs |-> HotNames[1]]
  /\ pc = [c \in Runs |-> IF c = 1 THEN "expanding" ELSE "off"]
  /\ processingProcedures = [m \in Names |-> NoPromise]
  /\ tasks = [c \in Runs |-> <<>>]
  /\ frames = [c \in Runs |-> <<>>]
  /\ cycles = [c \in Runs |-> <<>>]
  /\ chain = [c \in Runs |-> EmptyChain]
  /\ CacheIdle /\ DirIdle /\ NameIdle /\ TextIdle

NextHotspots == \E c \in Runs : Finish(c)

SpecHotspots == InitHotspots /\ [][NextHotspots]_vars

\* every lookup and read that was issued completes, and every continuation
\* that can run is run by the event loop
Progress(c) ==
  \/ RootRead(c)
  \/ \E tid \in 1..Len(tasks[c]) : LookupDone(c, tid)
  \/ \E tid \in 1..Len(tasks[c]) : ReadDone(c, tid)
  \/ \E fid \in 1..Len(frames[c]) : ResumeOwn(c, fid)
  \/ \E fid \in 1..Len(frames[c]) : ResumeOther(c, fid)
  \/ Finish(c)

FairSpec == Init /\ [][Next]_vars /\ WF_vars(Progress(1))

\* ------------------------------------------------- properties of one run
NodeIds(nodeList) == {nodeList[i].id : i \in 1..Len(nodeList)}

\* the calls the walker follows from a file: those findExecCalls returns for
\* a content that readSqlFile delivers
Follows(n) ==
  IF n = R \/ files[n].loc = "top" THEN {p \in Range(files[n].calls) : IsValidName(p)}
  ELSE {}

\* the names on call paths of exactly k references from the root
RECURSIVE AtDepth(_)
AtDepth(k) ==
  IF k = 0 THEN {R} ELSE UNION {Follows(n) : n \in AtDepth(k - 1)}

\* the least number of references on a call path from the root to n
RECURSIVE ShortestFrom(_, _)
ShortestFrom(n, k) ==
  IF n \in AtDepth(k) \/ k > Cardinality(Names) THEN k ELSE ShortestFrom(n, k + 1)

ShortestDepth(n) == ShortestFrom(n, 0)

\* a frame of run 1 awaited a promise another frame had made
SomeFrameAwaitedAnother ==
  \E i \in 1..Len(frames[1]) :
    /\ frames[1][i].awaited # NoPromise
    /\ tasks[1][frames[1][i].awaited[2]].owner # i

\* C1: a started analyzeProcedureChain call returns, whatever the call graph
\* (cycles and self-calls included) and whatever the order in which the
\* lookups of the concurrent expansions complete, given that each completes
C1_Terminates == (pc[1] = "readRoot") ~> (pc[1] = "done")

\* a run returned for a call graph in which a procedure other than the root
\* lies on a cycle and another one calls itself or the root
C1_Witness ==
  /\ pc[1] = "done"
  /\ \E n \in NodeIds(chain[1].nodes) \ {R} :
       n \in ReachFrom(Follows(n), {<<a, b>> \in Names \X Names : b \in Follows(a)})
  /\ Len(chain[1].nodes) >= 3

\* C2: in the returned chain, from and to of every edge are ids of nodes of
\* the returned node list
C2_EdgesReferToNodes ==
  pc[1] = "done" =>
    \A i \in 1..Len(chain[1].edges) :
      /\ chain[1].edges[i].from \in NodeIds(chain[1].nodes)
      /\ chain[1].edges[i].to \in NodeIds(chain[1].nodes)

\* a returned chain with an edge to the node of a procedure without file,
\* from a file that also names something that is no procedure name
C2_Witness ==
  /\ pc[1] = "done"
  /\ \E i \in 1..Len(chain[1].edges) : files[chain[1].edges[i].to].loc = "none"
  /\ \E i \in 1..Len(chain[1].nodes) : X \in Range(chain[1].nodes[i].calls)

\* C3: no two nodes of the node list have the same id, at any moment of the
\* run and so in the returned list
C3_NoDuplicateNode ==
  \A i, j \in 1..Len(nodes[1]) : nodes[1][i].id = nodes[1][j].id => i = j

\* the run returned after a name was referenced from two concurrent groups
C3_Witness ==
  /\ pc[1] = "done"
  /\ SomeFrameAwaitedAnother
  /\ Len(chain[1].nodes) >= 3

\* C4 as claimed: the level of every node is the least number of call edges
\* on a path from the root to it
C4_LevelIsShortestDepth ==
  pc[1] = "done" =>
    \A i \in 1..Len(chain[1].nodes) :
      chain[1].nodes[i].level = ShortestDepth(chain[1].nodes[i].id)

\* C4 amended: the level of every node is the length of a call path from the
\* root to it (the path along which it was discovered first), so it is at
\* least the shortest depth
C4_LevelIsDiscoveryDepth ==
  pc[1] = "done" =>
    \A i \in 1..Len(chain[1].nodes) :
      /\ chain[1].nodes[i].id \in AtDepth(chain[1].nodes[i].level)
      /\ chain[1].nodes[i].level >= ShortestDepth(chain[1].nodes[i].id)

\* a returned chain with a node discovered deeper than its shortest depth
C4_Witness ==
  /\ pc[1] = "done"
  /\ \E i \in 1..Len(chain[1].nodes) :
       chain[1].nodes[i].level > ShortestDepth(chain[1].nodes[i].id)

\* C5 as claimed: a node other than the root has isMissing = TRUE exactly if
\* no file was located for its name
C5_MissingIffNoFile ==
  pc[1] = "done" =>
    \A i \in 1..Len(chain[1].nodes) :
      ~chain[1].nodes[i].isRoot =>
        (chain[1].nodes[i].isMissing <=> files[chain[1].nodes[i].id].loc = "none")

\* C9: of every name at most one expansion (lookup, node, recursion) is ever
\* started in a run; a frame that meets a name being expanded awaits the
\* promise of that one expansion
C9_OneExpansionPerName ==
  /\ \A i, j \in 1..Len(tasks[1]) :
       (/\ tasks[1][i].name = tasks[1][j].name
        /\ tasks[1][i].st # "skipped" /\ tasks[1][j].st # "skipped") => i = j
  /\ \A i \in 1..Len(frames[1]) :
       frames[1][i].st = "waitOther" =>
         /\ tasks[1][frames[1][i].awaited[2]].name = frames[1][i].names[frames[1][i].i]
         /\ tasks[1][frames[1][i].awaited[2]].st \in {"lookup", "read", "children"}

\* a frame awaits the expansion of a name that is in progress, and another
\* name of the run is already expanded
C9_Witness ==
  /\ \E i \in 1..Len(frames[1]) :
       /\ frames[1][i].st = "waitOther"
       /\ tasks[1][frames[1][i].awaited[2]].st = "lookup"
  /\ Len(nodes[1]) >= 2

\* what findExecCalls returns on the content of the file of a procedure
DetectorOutput(n) == IF files[n].loc = "empty" THEN <<>> ELSE files[n].calls

\* C25: every node of the chain whose file was located (a file of its name
\* lies beneath the base directory) has
\* as calls what the call detector returns on the content of that file,
\* wherever beneath the base directory the file lies, the subdirectories
\* included
C25_CallsAreDetectorOutput ==
  pc[1] = "done" =>
    \A i \in 1..Len(chain[1].nodes) :
      files[chain[1].nodes[i].id].loc # "none" =>
        chain[1].nodes[i].calls = DetectorOutput(chain[1].nodes[i].id)

\* ------------------------------------------- properties of the metrics
\* the sum of the field of the domains from d on
RECURSIVE SumOver(_, _, _)
SumOver(domains, field, d) ==
  IF d > Len(domains) THEN 0
  ELSE (CASE field = "inbound" -> domains[d].inboundCalls
          [] field = "outbound" -> domains[d].outboundCalls
          [] field = "internal" -> domains[d].internalCalls)
       + SumOver(domains, field, d + 1)

CrossDomainEdges(edgeList) == {k \in 1..Len(edgeList) : edgeList[k].isCrossDomain}

\* C21: domainCouplingScore (kept in hundredths) lies within [0, 100], and
\* the couplingScore of every domain is outbound / (internal + outbound) *
\* 100, 0 for a domain without such calls, and so within [0, 100] as well
C21_CouplingWithinRange ==
  pc[1] = "done" =>
    /\ chain[1].metrics.domainCouplingScore \in 0..10000
    /\ \A d \in 1..Len(chain[1].metrics.domains) :
         LET m == chain[1].metrics.domains[d]
             totalCalls == m.internalCalls + m.outboundCalls
         IN  /\ m.couplingScore.den > 0
             /\ 0 <= m.couplingScore.num
             /\ m.couplingScore.num <= 100 * m.couplingScore.den
             /\ IF totalCalls = 0 THEN m.couplingScore.num = 0
                ELSE m.couplingScore.num * totalCalls
                       = 100 * m.outboundCalls * m.couplingScore.den

\* a chain with a domain that has two outbound calls and an internal one
C21_Witness ==
  /\ pc[1] = "done"
  /\ \E d \in 1..Len(chain[1].metrics.domains) :
       /\ chain[1].metrics.domains[d].outboundCalls >= 2
       /\ chain[1].metrics.domains[d].internalCalls >= 1
  /\ chain[1].metrics.domainCouplingScore \notin {0, 10000}

\* C23 as claimed: callDepth of every node is the number of calls on the
\* longest simple path of calls that starts at the node
C23_CallDepthIsLongestSimplePath ==
  pc[1] = "done" =>
    \A j \in 1..Len(chain[1].nodes) :
      chain[1].nodes[j].metrics.callDepth
        = SimpleCallDepthFrom(chain[1].nodes, chain[1].nodes[j].id, {})

\* C29: the outbound calls of all domains are as many as the inbound calls
\* and as the edges with isCrossDomain, the internal calls of all domains
\* are as many as the other edges
C29_DomainCallsConserved ==
  pc[1] = "done" =>
    LET domains == chain[1].metrics.domains
        cross == Cardinality(CrossDomainEdges(chain[1].edges))
    IN  /\ SumOver(domains, "outbound", 1) = cross
        /\ SumOver(domains, "inbound", 1) = cross
        /\ SumOver(domains, "internal", 1) = Len(chain[1].edges) - cross

\* a chain with calls inside a domain, calls between the domains in both
\* directions and a call of a procedure to itself
C29_Witness ==
  /\ pc[1] = "done"
  /\ Len(chain[1].metrics.domains) = 2
  /\ \A d \in 1..2 : chain[1].metrics.domains[d].outboundCalls >= 1
  /\ \E k \in 1..Len(chain[1].edges) : chain[1].edges[k].from = chain[1].edges[k].to

\* C30: a chain with nodes has one root node, the only node of level 0;
\* every other node has a level L >= 1 and an edge to it from a node of
\* level L - 1
C30_LevelsFollowEdges ==
  (pc[1] = "done" /\ chain[1].nodes # <<>>) =>
    LET nodeList == chain[1].nodes
    IN  /\ Cardinality({j \in 1..Len(nodeList) : nodeList[j].isRoot}) = 1
        /\ \A j \in 1..Len(nodeList) :
             /\ nodeList[j].isRoot <=> nodeList[j].level = 0
             /\ ~nodeList[j].isRoot =>
                  /\ nodeList[j].level >= 1
                  /\ \E k \in 1..Len(chain[1].edges), i \in 1..Len(nodeList) :
                       /\ chain[1].edges[k].to = nodeList[j].id
                       /\ chain[1].edges[k].from = nodeList[i].id
                       /\ nodeList[i].level = nodeList[j].level - 1

\* a chain with a node of level 2 that the root calls as well
C30_Witness ==
  /\ pc[1] = "done"
  /\ \E j \in 1..Len(chain[1].nodes), k \in 1..Len(chain[1].edges) :
       /\ chain[1].nodes[j].level = 2
       /\ chain[1].edges[k].to = chain[1].nodes[j].id
       /\ chain[1].edges[k].from = R

\* the number of callers of the node of the id
CallerCount(nodeList, id) == Len(NodeMapGet(nodeList, id).calledBy)

\* C22: hotspotProcedures holds at most 5 ids, each of a node of the chain
\* and none twice, in the order of falling caller counts, and no node that
\* is left out has more callers than a node that is listed
C22_HotspotsAreTopFive ==
  pc[1] = "done" =>
    LET hot == chain[1].metrics.hotspotProcedures
        nodeList == chain[1].nodes
    IN  /\ Len(hot) <= 5
        /\ Len(hot) = Min(5, Len(nodeList))
        /\ \A e \in 1..Len(hot) : hot[e] \in NodeIds(nodeList)
        /\ \A e, f \in 1..Len(hot) :
             /\ hot[e] = hot[f] => e = f
             /\ e < f => CallerCount(nodeList, hot[e]) >= CallerCount(nodeList, hot[f])
        /\ \A id \in NodeIds(nodeList) \ Range(hot) :
             \A e \in 1..Len(hot) : CallerCount(nodeList, id) <= CallerCount(nodeList, hot[e])

\* a chain of seven nodes: the last of the list is the first hotspot, and a
\* node with a caller is left out
C22_Witness ==
  /\ pc[1] = "done"
  /\ Len(chain[1].nodes) = 7
  /\ chain[1].metrics.hotspotProcedures[1] = chain[1].nodes[7].id
  /\ \E id \in NodeIds(chain[1].nodes) \ Range(chain[1].metrics.hotspotProcedures) :
       CallerCount(chain[1].nodes, id) >= 1

\* ------------------------------------------------ properties of the cycles
Calls(nodeList, id) == Range(NodeMapGet(nodeList, id).calls)

\* the call graph of the node list is one directed ring through all its nodes
IsRing(nodeList) ==
  /\ \A i \in 1..Len(nodeList) :
       /\ Len(nodeList[i].calls) = 1
       /\ nodeList[i].calls[1] \in NodeIds(nodeList)
  /\ ReachFrom({nodeList[1].id},
               {<<a, b>> \in Names \X Names :
                  a \in NodeIds(nodeList) /\ b \in Calls(nodeList, a)}) = NodeIds(nodeList)
  /\ \A i, j \in 1..Len(nodeList) :
       nodeList[i].calls[1] = nodeList[j].calls[1] => i = j

\* C6: for a call graph that is a single ring through the root, detectCycles
\* returns exactly one Cycle, and it holds every procedure of the ring: three
\* names for the ring of three, two for the mutual pair
C6_RingGivesOneCycle ==
  (pc[1] = "detected" /\ IsRing(nodes[1])) =>
    /\ Len(cycles[1]) = 1
    /\ Range(cycles[1][1].procedures) = NodeIds(nodes[1])

\* the ring of three procedures was searched
C6_Witness ==
  /\ pc[1] = "detected"
  /\ IsRing(nodes[1])
  /\ Len(nodes[1]) = 3
  /\ Len(cycles[1]) = 1

\* C7 as claimed: the procedures of every Cycle are a closed path of the call
\* graph in path order: each one calls the next, first and last are the same
C7_CycleIsClosedPath ==
  pc[1] = "detected" =>
    \A i \in 1..Len(cycles[1]) :
      LET p == cycles[1][i].procedures
      IN  /\ p[1] = p[Len(p)]
          /\ \A k \in 1..(Len(p) - 1) : p[k + 1] \in Calls(nodes[1], p[k])

\* C8 as claimed: no two Cycles of the result hold the same set of names
C8_NoCycleTwice ==
  pc[1] = "detected" =>
    \A i, j \in 1..Len(cycles[1]) :
      Range(cycles[1][i].procedures) = Range(cycles[1][j].procedures) => i = j

\* --------------------------------------------- properties of two runs
\* what a run returns when it runs alone: the nodes of the names reachable
\* from its root and the edges of the calls followed from them
AloneNodeIds(c) ==
  ReachFrom({rootOf[c]}, {<<a, b>> \in Names \X Names : b \in Follows(a)})

AloneEdges(c) == {<<a, b>> \in Names \X Names : a \in AloneNodeIds(c) /\ b \in Follows(a)}

\* C10 as claimed: each of two overlapping calls returns the nodes and edges
\* it returns alone, and every edge of a result ends at nodes of that result
C10_RunsDoNotInterfere ==
  \A c \in Runs :
    (pc[c] = "done" /\ chain[c].rootProcedure # NullPath) =>
      /\ NodeIds(chain[c].nodes) = AloneNodeIds(c)
      /\ {<<chain[c].edges[i].from, chain[c].edges[i].to>> :
            i \in 1..Len(chain[c].edges)} = AloneEdges(c)
      /\ \A i \in 1..Len(chain[c].edges) :
           /\ chain[c].edges[i].from \in NodeIds(chain[c].nodes)
           /\ chain[c].edges[i].to \in NodeIds(chain[c].nodes)

\* the level the finished run c gave to the node of the name n
LevelOf(c, n) ==
  {chain[c].nodes[i].level : i \in {j \in 1..Len(chain[c].nodes) : chain[c].nodes[j].id = n}}

\* C28: two analyses of the same root over the same files return the same
\* set of nodes, the same set of edges and the same level of every node, in
\* whatever order the lookups and reads of the concurrently expanded domain
\* groups completed in each of them
C28_ResultIndependentOfOrder ==
  (pc[1] = "done" /\ pc[2] = "done") =>
    /\ NodeIds(chain[1].nodes) = NodeIds(chain[2].nodes)
    /\ Range(chain[1].edges) = Range(chain[2].edges)
    /\ \A n \in Names : LevelOf(1, n) = LevelOf(2, n)

\* ---- the caches of ProcedureChainService ----

\* the clock is read in steps of 100 seconds; lookups are issued until MaxNow
MaxNow == 6

\* cacheExpiryTime = 5 * 60 * 1000 ms, in steps of 100 seconds
cacheExpiryTime == 3

\* the directory holds a file for A and none for B
DiskListing == {A}

\* `${searchPath}:${procedureName}` and the path of a file
CacheKey(procedureName) == <<"key", procedureName>>
PathOf(procedureName) == <<"path", procedureName>>
FileKeys == {CacheKey(A), CacheKey(B), PathOf(A)}

CacheEntry(content, timestamp) ==
  [present |-> TRUE, content |-> content, timestamp |-> timestamp]
\* no entry under the key
NoEntry == [present |-> FALSE, content |-> Null, timestamp |-> 0]
NoAnswer == [by |-> "none", age |-> 0, stale |-> FALSE, at |-> 0]

\* Date.now() - entry.timestamp < this.cacheExpiryTime, with the expiry
\* instant taken as still valid
FreshAtExpiry(entry) == now - entry.timestamp <= cacheExpiryTime

\* Date.now() - entry.timestamp < this.cacheExpiryTime
Fresh(entry) == now - entry.timestamp < cacheExpiryTime

\* now - entry.timestamp > this.cacheExpiryTime
Expired(entry) == now - entry.timestamp > cacheExpiryTime

Evict(cache) ==
  [k \in DOMAIN cache |->
     IF cache[k].present /\ Expired(cache[k]) THEN NoEntry ELSE cache[k]]

Answer(by, age, stale) == [by |-> by, age |-> age, stale |-> stale, at |-> now]

\* an entry for the key exists and is too old to be used
Stale(cache, k) == cache[k].present /\ ~Fresh(cache[k])

Tick ==
  /\ now < MaxNow
  /\ now' = now + 1
  /\ UNCHANGED <<fileCache, directoryCache, lookups, cacheAnswer>>
  /\ UNCHANGED <<vars, dirVars, nameVars, textVars>>

\* cleanCaches, called at line 112 of analyzeProcedureChain
CleanCaches ==
  /\ fileCache' = Evict(fileCache)
  /\ directoryCache' = Evict(directoryCache)
  /\ cacheAnswer' = Answer("cleanCaches", 0, FALSE)
  /\ UNCHANGED <<now, lookups>>
  /\ UNCHANGED <<vars, dirVars, nameVars, textVars>>

\* findProcedureFile, lines 629-676: up to a return from a cache or the
\* await of readDirectory
FindProcedureFile(procedureName) ==
  LET cacheKey == CacheKey(procedureName)
      dirStale == Stale(directoryCache, "top")
  IN  /\ now < MaxNow
      /\ IF fileCache[cacheKey].present /\ Fresh(fileCache[cacheKey])
         THEN /\ cacheAnswer' = Answer("fileCache", now - fileCache[cacheKey].timestamp, FALSE)
              /\ UNCHANGED lookups
         ELSE IF /\ directoryCache["top"].present
                 /\ Fresh(directoryCache["top"])
                 /\ procedureName \in directoryCache["top"].content
         THEN /\ cacheAnswer' = Answer("directoryCache",
                                       now - directoryCache["top"].timestamp,
                                       Stale(fileCache, cacheKey))
              /\ UNCHANGED lookups
         ELSE /\ lookups' = lookups \cup
                   {[op |-> "find", name |-> procedureName,
                     stale |-> Stale(fileCache, cacheKey) \/ dirStale]}
              /\ UNCHANGED cacheAnswer
      /\ UNCHANGED <<now, fileCache, directoryCache>>
      /\ UNCHANGED <<vars, dirVars, nameVars, textVars>>

\* findProcedureFile, lines 676-719: readDirectory returned or threw
FindProcedureFileRead(l, ok) ==
  /\ l \in lookups /\ l.op = "find"
  /\ lookups' = lookups \ {l}
  /\ directoryCache' = IF ok THEN [directoryCache EXCEPT !["top"] = CacheEntry(DiskListing, now)]
                             ELSE directoryCache
  /\ fileCache' = IF ok /\ l.name \in DiskListing
                  THEN fileCache
                  ELSE [fileCache EXCEPT ![CacheKey(l.name)] = CacheEntry(Null, now)]
  /\ cacheAnswer' = Answer("disk", 0, l.stale)
  /\ UNCHANGED now
  /\ UNCHANGED <<vars, dirVars, nameVars, textVars>>

\* readSqlFile, lines 779-850 and 868-874: up to a return from a cache or
\* the await of readDirectory
ReadSqlFile(procedureName) ==
  LET filePath == PathOf(procedureName)
      dirStale == Stale(directoryCache, "top")
  IN  /\ now < MaxNow
      /\ IF fileCache[filePath].present /\ Fresh(fileCache[filePath])
         THEN /\ cacheAnswer' = Answer("fileCache", now - fileCache[filePath].timestamp, FALSE)
              /\ UNCHANGED <<lookups, fileCache>>
         ELSE IF /\ directoryCache["top"].present
                 /\ Fresh(directoryCache["top"])
                 /\ procedureName \in directoryCache["top"].content
         THEN /\ cacheAnswer' = Answer("directoryCache",
                                       now - directoryCache["top"].timestamp,
                                       Stale(fileCache, filePath))
              /\ fileCache' = [fileCache EXCEPT ![filePath] = CacheEntry(procedureName, now)]
              /\ UNCHANGED lookups
         ELSE /\ lookups' = lookups \cup
                   {[op |-> "read", name |-> procedureName,
                     stale |-> Stale(fileCache, filePath) \/ dirStale]}
              /\ UNCHANGED <<cacheAnswer, fileCache>>
      /\ UNCHANGED <<now, directoryCache>>
      /\ UNCHANGED <<vars, dirVars, nameVars, textVars>>

\* readSqlFile, lines 850-884: readDirectory returned or threw
ReadSqlFileRead(l, ok) ==
  /\ l \in lookups /\ l.op = "read"
  /\ lookups' = lookups \ {l}
  /\ directoryCache' = IF ok THEN [directoryCache EXCEPT !["top"] = CacheEntry(DiskListing, now)]
                             ELSE directoryCache
  /\ fileCache' = [fileCache EXCEPT ![PathOf(l.name)] =
                     CacheEntry(IF ok /\ l.name \in DiskListing THEN l.name ELSE Null, now)]
  /\ cacheAnswer' = Answer("disk", 0, l.stale)
  /\ UNCHANGED now
  /\ UNCHANGED <<vars, dirVars, nameVars, textVars>>

\* the walker is not running; only its lookups are issued
WalkerIdle ==
  /\ files = [n \in Names |-> [loc |-> IF n \in DiskListing THEN "top" ELSE "none",
                               calls |-> <<>>]]
  /\ rootOf = [c \in Runs |-> R]
  /\ pc = [c \in Runs |-> "off"]
  /\ InitService

InitCache ==
  /\ now = 0
  /\ fileCache = [k \in FileKeys |-> NoEntry]
  /\ directoryCache = [d \in {"top"} |-> NoEntry]
  /\ lookups = {}
  /\ cacheAnswer = NoAnswer
  /\ WalkerIdle /\ DirIdle /\ NameIdle /\ TextIdle

NextCache ==
  \/ Tick
  \/ CleanCaches
  \/ \E n \in {A, B} : FindProcedureFile(n)
  \/ \E l \in lookups, ok \in BOOLEAN : FindProcedureFileRead(l, ok)
  \/ ReadSqlFile(A)
  \/ \E l \in lookups, ok \in BOOLEAN : ReadSqlFileRead(l, ok)

SpecCache == InitCache /\ [][NextCache]_<<vars, cacheVars>>

\* no entry of the cache is older than cacheExpiryTime
NoneOlderThanExpiry(cache) ==
  \A k \in DOMAIN cache :
    cache[k].present => now - cache[k].timestamp <= cacheExpiryTime

\* C11: a lookup answered from fileCache or directoryCache used an entry
\* younger than cacheExpiryTime, and right after cleanCaches no entry is older
\* than cacheExpiryTime
C11_NoExpiredEntryUsed ==
  /\ cacheAnswer.by \in {"fileCache", "directoryCache"}
       => cacheAnswer.age < cacheExpiryTime
  /\ cacheAnswer.by = "cleanCaches" /\ cacheAnswer.at = now
       => NoneOlderThanExpiry(fileCache) /\ NoneOlderThanExpiry(directoryCache)

\* a lookup found an entry whose age had reached cacheExpiryTime and went
\* to the disk instead
C11_Witness ==
  /\ cacheAnswer.by = "disk"
  /\ cacheAnswer.stale

\* the texts over an alphabet up to a length
Texts(alphabet, n) == UNION {[1..k -> alphabet] : k \in 0..n}

\* ---- the resolvers of a file name ----

\* the symbols of names: single letters and digits, '_', and the groups of
\* characters '_SP' and '.sql' in the cases they are written in
UpperLetters == {"A", "B", "C", "F", "I", "W"}
LowerLetters == {"a", "b", "c", "f", "i", "w"}
Digits == {"1"}
SpSuffixes == {"_SP", "_sp"}
SqlExtensions == {".sql", ".SQL"}
\* longer runs of letters that occur inside the names used here
WordParts == {"Post", "FuelInventory", "Repack", "PostFuelTransferOut"}

IsLetter(x) == x \in UpperLetters \cup LowerLetters
\* [A-Za-z0-9_]
IsWord(x) ==
  x \in UpperLetters \cup LowerLetters \cup Digits \cup {"_"} \cup SpSuffixes \cup WordParts

\* String.prototype.toUpperCase on a symbol
ToUpper(x) ==
  CASE x = "a" -> "A" [] x = "b" -> "B" [] x = "c" -> "C" [] x = "f" -> "F"
    [] x = "i" -> "I" [] x = "w" -> "W" [] x = "_sp" -> "_SP" [] x = ".sql" -> ".SQL"
    [] OTHER -> x
ToUpperCase(t) == [i \in 1..Len(t) |-> ToUpper(t[i])]

NoMatch == [matched |-> FALSE, name |-> <<>>, domain |-> <<>>]

\* fileName.match(/^([A-Z]{2})_([A-Za-z0-9_]+?_SP)(?:\.sql)?$/i): the
\* groups 1 and 2, or no match
MatchFileName(t) ==
  LET core == IF Len(t) > 0 /\ t[Len(t)] \in SqlExtensions
              THEN SubSeq(t, 1, Len(t) - 1) ELSE t
      n == Len(core)
  IN  IF /\ n >= 5
         /\ IsLetter(core[1]) /\ IsLetter(core[2])
         /\ core[3] = "_"
         /\ \A i \in 4..n : IsWord(core[i])
         /\ core[n] \in SpSuffixes
      THEN [matched |-> TRUE, g1 |-> SubSeq(core, 1, 2), g2 |-> SubSeq(core, 4, n)]
      ELSE [matched |-> FALSE, g1 |-> <<>>, g2 |-> <<>>]

\* SqlParserService.extractSpDetailsFromName, lines 60-69
extractSpDetailsFromName(t) ==
  LET match == MatchFileName(t)
  IN  IF match.matched
      THEN [matched |-> TRUE,
            name |-> match.g1 \o <<"_">> \o match.g2,
            domain |-> ToUpperCase(match.g1)]
      ELSE NoMatch

\* ProcedureChainService.extractProcedureInfo, lines 1237-1245
extractProcedureInfo(t) ==
  LET match == MatchFileName(t)
      domain == ToUpperCase(match.g1)
  IN  IF match.matched
      THEN [matched |-> TRUE, name |-> domain \o <<"_">> \o match.g2, domain |-> domain]
      ELSE NoMatch

\* the longest run of symbols drawn in front of the first '_'
MaxPrefix == 3

\* file names around the convention: a prefix, a separator, a body, an
\* ending and an extension
FileNames ==
  {pre \o sep \o body \o tail \o ext :
     pre \in Texts({"F", "i", "1"}, MaxPrefix),
     sep \in {<<>>, <<"_">>},
     body \in {<<>>, <<"A">>, <<"a", "_">>, <<"_SP">>, <<"-">>},
     tail \in {<<"_SP">>, <<"_sp">>, <<"x">>},
     ext \in {<<>>, <<".sql">>, <<".SQL">>, <<".txt">>}}

\* both resolvers applied to a file name
ResolveFileName ==
  /\ spDetails = NoMatch /\ procedureInfo = NoMatch
  /\ \E r \in {extractSpDetailsFromName(fileName)} : spDetails' = r
  /\ \E r \in {extractProcedureInfo(fileName)} : procedureInfo' = r
  /\ UNCHANGED fileName
  /\ UNCHANGED <<vars, cacheVars, dirVars, textVars>>

InitResolve ==
  /\ fileName \in FileNames
  /\ spDetails = NoMatch
  /\ procedureInfo = NoMatch
  /\ WalkerIdle /\ CacheIdle /\ DirIdle /\ TextIdle

NextResolve == ResolveFileName

SpecResolve == InitResolve /\ [][NextResolve]_<<vars, nameVars>>

\* C16 as claimed: for a file name that matches the convention the first two
\* symbols of the resolved name are the (upper-case) domain, and
\* extractSpDetailsFromName and extractProcedureInfo give the same result
C16_NameStartsWithDomain ==
  /\ spDetails.matched => SubSeq(spDetails.name, 1, 2) = spDetails.domain
  /\ procedureInfo.matched => SubSeq(procedureInfo.name, 1, 2) = procedureInfo.domain
  /\ spDetails = procedureInfo

\* ---- SqlParserService: removeSqlComments ----

\* a text is a sequence of symbols: single characters, and words that the
\* patterns of the parser treat as a whole
MaxText == 5

StripAlphabet == {"-", "/", "*", ";", " ", "\n", "\r", "a"}

\* \s of the regular expressions
IsSpace(x) == x \in {" ", "\n", "\r", "\t"}

Least(S) == CHOOSE x \in S : \A y \in S : x <= y

\* sqlContent.replace(/\r\n/g, '\n')
RECURSIVE NormalizeLineEndings(_, _)
NormalizeLineEndings(t, i) ==
  IF i > Len(t) THEN <<>>
  ELSE IF t[i] = "\r" /\ i < Len(t) /\ t[i + 1] = "\n"
       THEN <<"\n">> \o NormalizeLineEndings(t, i + 2)
       ELSE <<t[i]>> \o NormalizeLineEndings(t, i + 1)

\* lines 77-84: every line is cut at its first '--'; the lines are joined
\* again; inComment: a '--' was seen on the line of position i
RECURSIVE RemoveLineComments(_, _, _)
RemoveLineComments(t, i, inComment) ==
  IF i > Len(t) THEN <<>>
  ELSE IF t[i] = "\n" THEN <<"\n">> \o RemoveLineComments(t, i + 1, FALSE)
  ELSE IF inComment THEN RemoveLineComments(t, i + 1, TRUE)
  ELSE IF t[i] = "-" /\ i < Len(t) /\ t[i + 1] = "-"
       THEN RemoveLineComments(t, i + 1, TRUE)
       ELSE <<t[i]>> \o RemoveLineComments(t, i + 1, FALSE)

\* noComments.replace(/\/\*[\s\S]*?\*\//g, ' ')
RECURSIVE RemoveBlockComments(_, _)
RemoveBlockComments(t, i) ==
  IF i > Len(t) THEN <<>>
  ELSE LET closers == {j \in (i + 2)..(Len(t) - 1) : t[j] = "*" /\ t[j + 1] = "/"}
       IN  IF t[i] = "/" /\ i < Len(t) /\ t[i + 1] = "*" /\ closers # {}
           THEN <<" ">> \o RemoveBlockComments(t, Least(closers) + 2)
           ELSE <<t[i]>> \o RemoveBlockComments(t, i + 1)

\* noComments.replace(/;/g, ' ; ')
RECURSIVE PadSemicolons(_, _)
PadSemicolons(t, i) ==
  IF i > Len(t) THEN <<>>
  ELSE IF t[i] = ";" THEN <<" ", ";", " ">> \o PadSemicolons(t, i + 1)
       ELSE <<t[i]>> \o PadSemicolons(t, i + 1)

RECURSIVE CollapseFrom(_, _)
CollapseFrom(t, i) ==
  IF i > Len(t) THEN <<>>
  ELSE IF IsSpace(t[i])
       THEN IF i > 1 /\ IsSpace(t[i - 1]) THEN CollapseFrom(t, i + 1)
            ELSE <<" ">> \o CollapseFrom(t, i + 1)
       ELSE <<t[i]>> \o CollapseFrom(t, i + 1)

Trim(t) ==
  LET kept == {i \in 1..Len(t) : ~IsSpace(t[i])}
  IN  IF kept = {} THEN <<>>
      ELSE SubSeq(t, Least(kept), CHOOSE x \in kept : \A y \in kept : y <= x)

\* whitespace left as it is
KeepWhitespace(t) == t

\* noComments.replace(/\s+/g, ' ').trim()
NormalizeWhitespace(t) == Trim(CollapseFrom(t, 1))

\* removeSqlComments, lines 72-96
removeSqlComments(t) ==
  LET normalizedContent == NormalizeLineEndings(t, 1)
      noLine == RemoveLineComments(normalizedContent, 1, FALSE)
      noBlock == RemoveBlockComments(noLine, 1)
      padded == PadSemicolons(noBlock, 1)
  IN  NormalizeWhitespace(padded)

\* removeSqlComments applied to a text
RemoveSqlComments ==
  /\ stripCount = 0
  /\ \E r \in {removeSqlComments(originalContent)} : cleanedContent' = r
  /\ stripCount' = 1
  /\ UNCHANGED <<originalContent, execCalls>>
  /\ UNCHANGED <<vars, cacheVars, dirVars, nameVars>>

\* removeSqlComments applied to the text it returned
RemoveSqlCommentsAgain ==
  /\ stripCount = 1
  /\ \E r \in {removeSqlComments(cleanedContent)} : cleanedContent' = r
  /\ stripCount' = 2
  /\ UNCHANGED <<originalContent, execCalls>>
  /\ UNCHANGED <<vars, cacheVars, dirVars, nameVars>>

InitStrip ==
  /\ originalContent \in Texts(StripAlphabet, MaxText)
  /\ cleanedContent = <<>>
  /\ stripCount = 0
  /\ execCalls = <<>>
  /\ WalkerIdle /\ CacheIdle /\ DirIdle /\ NameIdle

NextStrip == RemoveSqlComments \/ RemoveSqlCommentsAgain

SpecStrip == InitStrip /\ [][NextStrip]_<<vars, textVars>>

\* C19: removeSqlComments applied to its own result returns that result
C19_StripIsIdempotent ==
  [][stripCount = 1 => cleanedContent' = cleanedContent]_<<vars, textVars>>

\* a text that the first application shortened to a non-empty text was
\* stripped twice
C19_Witness ==
  /\ stripCount = 2
  /\ cleanedContent # <<>>
  /\ Len(cleanedContent) < Len(originalContent)

\* ---- SqlParserService: findExecCalls ----

\* the first position from i on that holds no whitespace (Len(t) + 1 if none)
SkipSpaces(t, i) ==
  Least({j \in i..(Len(t) + 1) : j = Len(t) + 1 \/ ~IsSpace(t[j])})

\* t holds the symbols of u as a run: String.prototype.includes
Includes(t, u) ==
  \E i \in 1..(Len(t) - Len(u) + 1) : SubSeq(t, i, i + Len(u) - 1) = u

\* the positions at which [A-Z]{2}_[A-Za-z0-9_]+?_SP, begun at i, can end;
\* the lazy body ends at the least of them that lets the rest match
NameEnds(t, i, caseInsensitive) ==
  IF /\ i + 4 <= Len(t)
     /\ IF caseInsensitive THEN IsLetter(t[i]) /\ IsLetter(t[i + 1])
        ELSE t[i] \in UpperLetters /\ t[i + 1] \in UpperLetters
     /\ t[i + 2] = "_"
  THEN {j \in (i + 4)..Len(t) :
          /\ IF caseInsensitive THEN t[j] \in SpSuffixes ELSE t[j] = "_SP"
          /\ \A k \in (i + 3)..(j - 1) : IsWord(t[k])}
  ELSE {}

\* the end of the name begun at i when nothing has to follow it (0: no name)
NameEnd(t, i) ==
  IF NameEnds(t, i, TRUE) = {} THEN 0 ELSE Least(NameEnds(t, i, TRUE))

IsExec(x) == x \in {"EXEC", "EXECUTE", "exec"}
IsQuote(x) == x \in {"'", "\""}

\* (?:[\w.$]+\s*=\s*)?(?:(?:\[?[\w]+\]?\.)?|\s*)['"`\[]? after q: the
\* position at which the name starts (0: none); the assignment is tried first
NameStartAfter(t, q) ==
  LET run == Least({j \in q..(Len(t) + 1) : j = Len(t) + 1 \/ ~IsWord(t[j])})
      eq == SkipSpaces(t, run)
      q2 == IF q <= Len(t) /\ run > q /\ eq <= Len(t) /\ t[eq] = "=" THEN SkipSpaces(t, eq + 1) ELSE 0
      starts == <<q2, q2 + 1, SkipSpaces(t, q), SkipSpaces(t, q) + 1>>
      fits(k) == /\ starts[k] > 0 /\ starts[k] <= Len(t)
                 /\ NameEnd(t, starts[k]) # 0
                 /\ (k \in {2, 4}) => (starts[k] > 1 /\ IsQuote(t[starts[k] - 1]))
                 /\ (k \in {1, 2}) => q2 # 0
  IN  IF \E k \in 1..4 : fits(k) THEN starts[Least({k \in 1..4 : fits(k)})] ELSE 0

\* pass 1, lines 109-112: EXEC(?:UTE)?\s+ ... (name), matches from p on
RECURSIVE ExecPass(_, _)
ExecPass(t, p) ==
  IF p > Len(t) THEN <<>>
  ELSE LET r == IF IsExec(t[p]) /\ p < Len(t) /\ IsSpace(t[p + 1])
                THEN NameStartAfter(t, SkipSpaces(t, p + 1)) ELSE 0
       IN  IF r # 0
           THEN <<SubSeq(t, r, NameEnd(t, r))>> \o ExecPass(t, NameEnd(t, r) + 1)
           ELSE ExecPass(t, p + 1)

\* pass 2: the positions at which the name, or the quote before it, can
\* start after the prefix matched at p: CALL\s+ | ;\s* | BEGIN\s+ | FROM\s+ |
\* =\s* | INSERT\s+.*?INTO.*?\s+ | INTO\s+ | JOIN\s+
DirectPrefixEnds(t, p) ==
  IF t[p] \in {"CALL", "BEGIN", "FROM", "INTO", "JOIN"}
  THEN IF p < Len(t) /\ IsSpace(t[p + 1]) THEN {SkipSpaces(t, p + 1)} ELSE {}
  ELSE IF t[p] \in {";", "="} THEN {SkipSpaces(t, p + 1)}
  ELSE IF t[p] = "INSERT" /\ p < Len(t) /\ IsSpace(t[p + 1])
  THEN {q \in (p + 3)..Len(t) :
          IsSpace(t[q - 1]) /\ \E i \in (p + 2)..(q - 2) : t[i] = "INTO"}
  ELSE {}

\* pass 2: the end of the match when the name ends at j (0: the suffix
\* (?:\s*\(|\s+@|\s*$|\s*,|\s*;|\s+WITH|\s+ON) does not follow)
DirectSuffixEnd(t, j) ==
  LET k == IF j < Len(t) /\ IsQuote(t[j + 1]) THEN j + 1 ELSE j
      after(m) ==
        LET x == SkipSpaces(t, m + 1)
        IN  IF x > Len(t) THEN Len(t)
            ELSE IF t[x] \in {"(", ",", ";"} THEN x
            ELSE IF x > m + 1 /\ t[x] \in {"@", "WITH", "ON"} THEN x
            ELSE 0
  IN  IF after(k) # 0 THEN after(k) ELSE after(j)

\* pass 2, lines 116-119: a name between a prefix and a suffix
RECURSIVE DirectPass(_, _)
DirectPass(t, p) ==
  IF p > Len(t) THEN <<>>
  ELSE LET nameStart(q) == IF q <= Len(t) /\ IsQuote(t[q]) THEN q + 1 ELSE q
           ends(q) == {j \in NameEnds(t, nameStart(q), TRUE) : DirectSuffixEnd(t, j) # 0}
           found == {q \in DirectPrefixEnds(t, p) : ends(q) # {}}
       IN  IF found # {}
           THEN LET r == nameStart(Least(found))
                    j == Least(ends(Least(found)))
                IN  <<SubSeq(t, r, j)>> \o DirectPass(t, DirectSuffixEnd(t, j) + 1)
           ELSE DirectPass(t, p + 1)

\* pass 3, lines 122-125: INSERT\s+(?:INTO)?\s+.*?\s+EXEC(?:UTE)?\s+ ... (name)
RECURSIVE InsertExecPass(_, _)
InsertExecPass(t, p) ==
  IF p > Len(t) THEN <<>>
  ELSE LET from == IF p + 3 <= Len(t) /\ IsSpace(t[p + 1]) /\ t[p + 2] = "INTO"
                      /\ IsSpace(t[p + 3])
                   THEN p + 4
                   ELSE IF p + 2 <= Len(t) /\ IsSpace(t[p + 1]) /\ IsSpace(t[p + 2])
                   THEN p + 3 ELSE 0
           execs == IF t[p] # "INSERT" \/ from = 0 THEN {}
                    ELSE {e \in (from + 1)..(Len(t) - 1) :
                            /\ IsSpace(t[e - 1]) /\ IsExec(t[e]) /\ IsSpace(t[e + 1])
                            /\ NameStartAfter(t, e + 2) # 0}
       IN  IF execs # {}
           THEN LET r == NameStartAfter(t, Least(execs) + 2)
                IN  <<SubSeq(t, r, NameEnd(t, r))>> \o InsertExecPass(t, NameEnd(t, r) + 1)
           ELSE InsertExecPass(t, p + 1)

\* pass 4, lines 128-131: (?:SET|DECLARE)\s+@[\w_]+\s*=\s*N?['"][^'"]*?(name)
\* [^'"]*?['"]; the alternative EXEC(@variable) captures no name
RECURSIVE DynamicSqlPass(_, _)
DynamicSqlPass(t, p) ==
  IF p > Len(t) THEN <<>>
  ELSE LET at == IF p < Len(t) /\ IsSpace(t[p + 1]) THEN SkipSpaces(t, p + 1) ELSE 0
           var == IF at # 0 /\ at < Len(t) /\ t[at] = "@" /\ IsWord(t[at + 1])
                  THEN Least({j \in (at + 1)..(Len(t) + 1) :
                                j = Len(t) + 1 \/ ~IsWord(t[j])})
                  ELSE 0
           eq == IF var # 0 THEN SkipSpaces(t, var) ELSE 0
           open == IF eq # 0 /\ eq <= Len(t) /\ t[eq] = "=" THEN SkipSpaces(t, eq + 1) ELSE 0
           closeOf(j) == {c \in (j + 1)..Len(t) :
                            IsQuote(t[c]) /\ \A k \in (j + 1)..(c - 1) : ~IsQuote(t[k])}
           ends(r) == {j \in NameEnds(t, r, TRUE) : closeOf(j) # {}}
           starts == IF t[p] \in {"SET", "DECLARE"} /\ open # 0 /\ open <= Len(t)
                        /\ IsQuote(t[open])
                     THEN {r \in (open + 1)..Len(t) :
                             /\ \A k \in (open + 1)..(r - 1) : ~IsQuote(t[k])
                             /\ ends(r) # {}}
                     ELSE {}
       IN  IF starts # {}
           THEN LET r == Least(starts)
                    j == Least(ends(r))
                IN  <<SubSeq(t, r, j)>> \o DynamicSqlPass(t, Least(closeOf(j)) + 1)
           ELSE DynamicSqlPass(t, p + 1)

\* lines 139-141: the text holds a definition of procName
IsDefinedIn(t, procName) ==
  \/ Includes(t, <<"CREATE", " ", "PROCEDURE", " ">> \o procName)
  \/ Includes(t, <<"CREATE", " ", "OR", " ", "ALTER", " ", "PROCEDURE", " ">> \o procName)
  \/ Includes(t, <<"ALTER", " ", "PROCEDURE", " ">> \o procName)

\* lines 144-155: the line of the match (the cleaned text has one line)
\* holds EXEC, CALL, INSERT, '(' or '@', or matches
\* /=\s*[\w\s]*?[A-Z]{2}_[A-Za-z0-9_]+?_SP/
HasCallSignal(t) ==
  \/ \E i \in 1..Len(t) : t[i] \in {"EXEC", "EXECUTE", "CALL", "INSERT", "(", "@"}
  \/ \E i \in 1..Len(t), r \in 1..Len(t) :
       /\ t[i] = "=" /\ r > i
       /\ \A k \in (i + 1)..(r - 1) : IsWord(t[k]) \/ IsSpace(t[k])
       /\ NameEnds(t, r, FALSE) # {}

\* lines 139-156: a name seen by pass 5 is kept
Kept(t, procName) == ~IsDefinedIn(t, procName) /\ HasCallSignal(t)

\* pass 5, lines 135-159: \b(name)\b anywhere in the cleaned text
RECURSIVE ProcNamePass(_, _)
ProcNamePass(t, p) ==
  IF p > Len(t) THEN <<>>
  ELSE LET ends == IF p = 1 \/ ~IsWord(t[p - 1])
                   THEN {j \in NameEnds(t, p, TRUE) : j = Len(t) \/ ~IsWord(t[j + 1])}
                   ELSE {}
       IN  IF ends # {}
           THEN LET procName == SubSeq(t, p, Least(ends))
                IN  (IF Kept(t, procName) THEN <<procName>> ELSE <<>>)
                      \o ProcNamePass(t, Least(ends) + 1)
           ELSE ProcNamePass(t, p + 1)

\* the position after the words kws, each followed by whitespace, when they
\* stand at p (0: they do not)
RECURSIVE KeywordsEnd(_, _, _, _)
KeywordsEnd(t, p, kws, k) ==
  IF k > Len(kws) THEN p
  ELSE IF p < Len(t) /\ t[p] = kws[k] /\ IsSpace(t[p + 1])
       THEN KeywordsEnd(t, SkipSpaces(t, p + 1), kws, k + 1)
       ELSE 0

\* extractProcedureNameFromContent, lines 192-196
extractProcedureNameFromContent(content) ==
  LET nameAt(p, kws) ==
        LET r == KeywordsEnd(content, p, kws, 1)
        IN  IF r # 0 /\ NameEnd(content, r) # 0 THEN r ELSE 0
      first(kwsSet) ==
        LET ps == {p \in 1..Len(content) : \E kws \in kwsSet : nameAt(p, kws) # 0}
        IN  IF ps = {} THEN 0
            ELSE LET p == Least(ps)
                     kws == CHOOSE w \in kwsSet : nameAt(p, w) # 0
                 IN  nameAt(p, kws)
      created == first({<<"CREATE", "PROCEDURE">>, <<"CREATE", "OR", "ALTER", "PROCEDURE">>})
      altered == first({<<"ALTER", "PROCEDURE">>})
      r == IF created # 0 THEN created ELSE altered
  IN  IF r = 0 THEN <<>> ELSE SubSeq(content, r, NameEnd(content, r))

FI_PostFuelInventory_SP == <<"F", "I", "_", "Post", "FuelInventory", "_SP">>
WI_PostRepack_PostFuelTransferOut_SP ==
  <<"W", "I", "_", "Post", "Repack", "_", "PostFuelTransferOut", "_SP">>
criticalProcedures == <<FI_PostFuelInventory_SP, WI_PostRepack_PostFuelTransferOut_SP>>
FI_Post == <<"F", "I", "_", "Post">>

\* lines 169-173: a critical procedure the original text mentions
RECURSIVE CriticalPass(_, _)
CriticalPass(content, k) ==
  IF k > Len(criticalProcedures) THEN <<>>
  ELSE LET proc == criticalProcedures[k]
       IN  (IF /\ Includes(content, proc)
               /\ ~Includes(proc, extractProcedureNameFromContent(content))
            THEN <<proc>> ELSE <<>>) \o CriticalPass(content, k + 1)

\* lines 176-185: the original text mentions FI_Post and no call found so
\* far starts with it
FiPostPass(content, found) ==
  LET starts == {i \in 1..(Len(content) - 3) :
                   /\ ToUpper(content[i]) = "F" /\ ToUpper(content[i + 1]) = "I"
                   /\ content[i + 2] = "_" /\ content[i + 3] = "Post"
                   /\ \E j \in (i + 5)..Len(content) :
                        /\ content[j] \in SpSuffixes
                        /\ \A k \in (i + 4)..(j - 1) : IsWord(content[k])}
      endOf(i) == Least({j \in (i + 5)..Len(content) :
                           /\ content[j] \in SpSuffixes
                           /\ \A k \in (i + 4)..(j - 1) : IsWord(content[k])})
  IN  IF /\ Includes(content, FI_Post)
         /\ ~\E c \in 1..Len(found) :
               Len(found[c]) >= 4 /\ SubSeq(found[c], 1, 4) = FI_Post
      THEN IF starts # {}
           THEN <<SubSeq(content, Least(starts), endOf(Least(starts)))>>
           ELSE <<FI_PostFuelInventory_SP>>
      ELSE <<>>

\* [...new Set(execCalls)]
RECURSIVE Deduplicate(_, _)
Deduplicate(calls, k) ==
  IF k > Len(calls) THEN <<>>
  ELSE (IF \E i \in 1..(k - 1) : calls[i] = calls[k] THEN <<>> ELSE <<calls[k]>>)
         \o Deduplicate(calls, k + 1)

\* the five general passes over the cleaned text, lines 107-159
GeneralPasses(cleaned) ==
  ExecPass(cleaned, 1) \o DirectPass(cleaned, 1) \o InsertExecPass(cleaned, 1)
    \o DynamicSqlPass(cleaned, 1) \o ProcNamePass(cleaned, 1)

\* findExecCalls, lines 98-189
findExecCalls(content) ==
  LET cleaned == CHOOSE c \in {removeSqlComments(content)} : TRUE
      general == CHOOSE g \in {GeneralPasses(cleaned)} : TRUE
      critical == general \o CriticalPass(content, 1)
  IN  Deduplicate(critical \o FiPostPass(content, critical), 1)

\* the names that occur in the texts given to findExecCalls
FI_A_SP == <<"F", "I", "_", "A", "_SP">>
WI_B_SP == <<"W", "I", "_", "B", "_SP">>
FI_PostA_SP == <<"F", "I", "_", "Post", "A", "_SP">>
TextNames == {FI_A_SP, WI_B_SP, FI_PostA_SP, FI_PostFuelInventory_SP}

\* the statements and comments the texts are made of
Segments ==
  UNION {{<<"CREATE", " ", "PROCEDURE", " ">> \o n \o <<"\n">>,
          <<"EXEC", " ">> \o n \o <<"\n">>,
          <<"SELECT", " ">> \o n \o <<" ">>,
          <<"CALL", " ">> \o n \o <<";">>,
          <<"SET", " ", "@", "v", " ", "=", " ", "'">> \o n \o <<"'", ";">>,
          <<"INSERT", " ", "INTO", " ", "t", " ", "EXEC", " ">> \o n \o <<"\n">>,
          <<"-", "-", " ">> \o n \o <<"\n">>,
          <<"/", "*">> \o n \o <<"*", "/">>} : n \in TextNames}
    \cup {<<"-", "-", " ">> \o FI_Post \o <<"\n">>, <<";">>}

\* the most segments a text has
MaxSegments == 2

RECURSIVE Concatenations(_)
Concatenations(k) ==
  IF k = 0 THEN {<<>>}
  ELSE Concatenations(k - 1)
         \cup {t \o seg : t \in Concatenations(k - 1), seg \in Segments}

\* findExecCalls applied to a text
FindExecCalls ==
  /\ stripCount = 0
  /\ \E r \in {removeSqlComments(originalContent)} : cleanedContent' = r
  /\ \E r \in {findExecCalls(originalContent)} : execCalls' = r
  /\ stripCount' = 1
  /\ UNCHANGED originalContent
  /\ UNCHANGED <<vars, cacheVars, dirVars, nameVars>>

InitCalls ==
  /\ originalContent \in Concatenations(MaxSegments)
  /\ cleanedContent = <<>>
  /\ stripCount = 0
  /\ execCalls = <<>>
  /\ WalkerIdle /\ CacheIdle /\ DirIdle /\ NameIdle

NextCalls == FindExecCalls

SpecCalls == InitCalls /\ [][NextCalls]_<<vars, textVars>>

\* C17 as claimed: findExecCalls does not return the name that the text it
\* scanned declares in its CREATE PROCEDURE statement
C17_OwnNameNotReturned ==
  stripCount = 1 =>
    \A k \in 1..Len(execCalls) :
      execCalls[k] # extractProcedureNameFromContent(originalContent)

\* C18 as claimed: findExecCalls returns the de-duplicated names of the five
\* general passes, and every name it returns stands in the cleaned text
C18_OnlyGeneralPasses ==
  stripCount = 1 =>
    /\ execCalls = Deduplicate(GeneralPasses(cleanedContent), 1)
    /\ \A k \in 1..Len(execCalls) : Includes(cleanedContent, execCalls[k])

\* ---- SqlParserService: analyzeDirectory ----

\* path.dirname and path.basename of a scanned file: its path is kept as
\* the pair of both
VirtualDir == "[Virtual]"
\* rootPath.split(path.sep).pop() || 'Root'
RootName == "Root"
\* directoryPath === '.' ? rootPath.split(path.sep).pop() || 'Root' : directoryPath
DirectoryPathOf(dir) == IF dir = "." THEN RootName ELSE dir

\* `${domain}_Domain`
DomainFolder(domain) ==
  CASE domain = <<"F", "I">> -> "FI_Domain"
    [] domain = <<"W", "I">> -> "WI_Domain"
    [] OTHER -> "Other_Domain"

\* file.content.split('\n').length
LineCount(content) == Cardinality({i \in 1..Len(content) : content[i] = "\n"}) + 1

ProcedureInfo(name, domain, filePath, directoryPath, lineCount) ==
  [id |-> name, name |-> name, domain |-> domain, filePath |-> filePath,
   directoryPath |-> directoryPath, lineCount |-> lineCount]

\* proceduresMap.has(name) and proceduresMap.get(name); the map is kept as
\* the sequence of its values in insertion order
MapHas(procedures, name) == \E i \in 1..Len(procedures) : procedures[i].name = name
MapGet(procedures, name) ==
  procedures[CHOOSE i \in 1..Len(procedures) : procedures[i].name = name]

\* a later file of a name replaces the record of the name
OverwriteRecord(procedures, info) ==
  IF MapHas(procedures, info.name)
  THEN [i \in 1..Len(procedures) |->
          IF procedures[i].name = info.name THEN info ELSE procedures[i]]
  ELSE Append(procedures, info)

\* lines 237-252: the record is set only if the name has none yet
RegisterRecord(procedures, info) ==
  IF MapHas(procedures, info.name) THEN procedures ELSE Append(procedures, info)

\* pass 1, lines 232-258: the state after the files k.. were seen
RECURSIVE DiscoverProcedures(_, _, _)
DiscoverProcedures(st, files_, k) ==
  IF k > Len(files_) THEN st
  ELSE LET file == files_[k]
           details == extractSpDetailsFromName(file.path[2])
           directoryPath == DirectoryPathOf(file.path[1])
           info == ProcedureInfo(details.name, details.domain, file.path,
                                 directoryPath, LineCount(file.content))
           seen == [st EXCEPT
                      !.procedures = RegisterRecord(@, info),
                      !.errors = IF MapHas(st.procedures, details.name)
                                 THEN Append(@, [kind |-> "duplicate", name |-> details.name,
                                                 first |-> MapGet(st.procedures, details.name).filePath,
                                                 second |-> file.path])
                                 ELSE @,
                      !.allDirectories = @ \cup {directoryPath}]
       IN  IF ~details.matched THEN DiscoverProcedures(st, files_, k + 1)
           ELSE CHOOSE r \in {DiscoverProcedures(s, files_, k + 1) : s \in {seen}} : TRUE

\* targetProcName.match(/^[A-Z]{2}_[A-Za-z0-9_]+?_SP$/)
FollowsConvention(targetProcName) ==
  Len(targetProcName) \in NameEnds(targetProcName, 1, FALSE)

\* `${source}--->${target}`
DepKey(sourceDirectory, targetDirectory) == <<sourceDirectory, "--->", targetDirectory>>

\* every dependency counts as new
AlwaysNewDependency(dependencySet, source, target) == TRUE

\* line 325: !dependencySet.has(depKey) && source directory !== target directory
IsNewDependency(dependencySet, source, target) ==
  DepKey(source, target) \notin dependencySet /\ source # target

\* only dependencies across domains are wanted
OnlyCrossDomain(showAll, isCrossDomain) == isCrossDomain

\* line 323: this.showAllDependencies || isCrossDomain
WantedDependency(showAll, isCrossDomain) == showAll \/ isCrossDomain

\* lines 284-339: the state after the targets i.. of the source were handled
RECURSIVE MapTargets(_, _, _, _)
MapTargets(st, sourceProcInfo, targets, i) ==
  IF i > Len(targets) THEN st
  ELSE
    LET targetProcName == targets[i]
        found == MapHas(st.procedures, targetProcName)
        virtual == ~found /\ FollowsConvention(targetProcName)
        domain == SubSeq(targetProcName, 1, 2)
        sameDomain == {j \in 1..Len(st.procedures) : st.procedures[j].domain = domain}
        directoryPath == IF sameDomain # {}
                         THEN st.procedures[Least(sameDomain)].directoryPath
                         ELSE DomainFolder(domain)
        targetProcInfo ==
          IF found THEN MapGet(st.procedures, targetProcName)
          ELSE ProcedureInfo(targetProcName, domain, <<VirtualDir, targetProcName>>,
                             directoryPath, 0)
        isCrossDomain == sourceProcInfo.domain # targetProcInfo.domain
        wanted == /\ WantedDependency(st.showAll, isCrossDomain)
                  /\ IsNewDependency(st.dependencySet, sourceProcInfo.directoryPath,
                                     targetProcInfo.directoryPath)
        st1 == IF virtual
               THEN [st EXCEPT !.procedures = Append(@, targetProcInfo),
                               !.errors = Append(@, [kind |-> "virtual",
                                                     name |-> targetProcName])]
               ELSE st
        st2 == IF found \/ virtual
               THEN [st1 EXCEPT
                       !.directoryDependencies =
                          IF wanted
                          THEN Append(@, [sourceDirectory |-> sourceProcInfo.directoryPath,
                                          targetDirectory |-> targetProcInfo.directoryPath,
                                          isCrossDomain |-> isCrossDomain])
                          ELSE @,
                       !.dependencySet =
                          IF wanted
                          THEN @ \cup {DepKey(sourceProcInfo.directoryPath,
                                              targetProcInfo.directoryPath)}
                          ELSE @,
                       !.allDirectories = @ \cup {targetProcInfo.directoryPath}]
               ELSE [st1 EXCEPT !.errors = Append(@, [kind |-> "unknown",
                                                      source |-> sourceProcInfo.name,
                                                      target |-> targetProcName])]
    IN  CHOOSE r \in {MapTargets(s, sourceProcInfo, targets, i + 1) : s \in {st2}} : TRUE

\* lines 268-275: the calls of a source, with the dependency added for one
\* hard-coded caller
CalledProcNames(sourceProcName, content) ==
  CHOOSE r \in
    {IF /\ sourceProcName = WI_PostRepack_PostFuelTransferOut_SP
        /\ ~\E i \in 1..Len(calledProcNames) : calledProcNames[i] = FI_PostFuelInventory_SP
     THEN Append(calledProcNames, FI_PostFuelInventory_SP)
     ELSE calledProcNames : calledProcNames \in {findExecCalls(content)}} : TRUE

\* pass 2, lines 264-340: the state after the map entries k.. were visited;
\* the iteration also visits the entries added while it runs
\* lines 265-339: one source with its file
MapSource(st, sourceProcInfo, fileData) ==
  CHOOSE r \in
    {MapTargets([st EXCEPT !.procedureCalls =
                   Append(@, [source |-> sourceProcInfo.name, targets |-> targets])],
                sourceProcInfo, targets, 1) :
       targets \in {CalledProcNames(sourceProcInfo.name, fileData.content)}} : TRUE

RECURSIVE MapSources(_, _, _)
MapSources(st, files_, k) ==
  IF k > Len(st.procedures) THEN st
  ELSE LET sourceProcInfo == st.procedures[k]
           at == {i \in 1..Len(files_) : files_[i].path = sourceProcInfo.filePath}
       IN  IF at = {} THEN MapSources(st, files_, k + 1)
           ELSE CHOOSE r \in {MapSources(s, files_, k + 1) :
                               s \in {MapSource(st, sourceProcInfo, files_[Least(at)])}} : TRUE

\* lines 343-346
RECURSIVE TotalLineCount(_, _)
TotalLineCount(procedures, k) ==
  IF k > Len(procedures) THEN 0
  ELSE procedures[k].lineCount + TotalLineCount(procedures, k + 1)

\* analyzeDirectory, lines 220-356: from the result of readDirectory on
analyzeDirectory(files_, showAll) ==
  LET start == [procedures |-> <<>>, errors |-> <<>>, allDirectories |-> {},
                directoryDependencies |-> <<>>, dependencySet |-> {},
                procedureCalls |-> <<>>, showAll |-> showAll]
  IN  CHOOSE r \in
        {[state |-> "done",
          procedures |-> st.procedures,
          directoryDependencies |-> st.directoryDependencies,
          allScannedDirectories |-> st.allDirectories,
          procedureCalls |-> st.procedureCalls,
          errors |-> st.errors,
          totalLineCount |-> TotalLineCount(st.procedures, 1)] :
           st \in {MapSources(discovered, files_, 1) :
                      discovered \in {DiscoverProcedures(start, files_, 1)}}} : TRUE

\* analyzeDirectory, lines 198-220: up to the await of readDirectory
AnalyzeDirectory(flag) ==
  /\ parsed.state = "idle"
  /\ showAllDependencies' = flag
  /\ parsed' = [state |-> "reading"]
  /\ UNCHANGED <<filesData, disk, scanned, dirCalls>>
  /\ UNCHANGED <<vars, cacheVars, nameVars, textVars>>

\* analyzeDirectory, lines 220-356: readDirectory returned
DirectoryRead ==
  /\ parsed.state = "reading"
  /\ \E r \in {analyzeDirectory(filesData, showAllDependencies)} : parsed' = r
  /\ UNCHANGED <<filesData, showAllDependencies, disk, scanned, dirCalls>>
  /\ UNCHANGED <<vars, cacheVars, nameVars, textVars>>

\* the most files the scan returns
MaxFiles == 2

wi_B_SP == <<"w", "i", "_", "B", "_SP">>
fi_A_SP == <<"f", "i", "_", "A", "_SP">>

\* the scanned files: one or no call per file, to a name in the case the
\* file is named in or another
ScannedFiles ==
  [path : {"Fin", "Wh", "."} \X {FI_A_SP \o <<".sql">>, WI_B_SP \o <<".sql">>,
                                 fi_A_SP \o <<".sql">>, <<"A", ".sql">>},
   content : {<<>>} \cup {<<"EXEC", " ">> \o n \o <<"\n">> :
                           n \in {FI_A_SP, WI_B_SP, wi_B_SP, FI_PostA_SP}}]

\* readDirectory lists no path twice
FileLists ==
  {l \in UNION {[1..k -> ScannedFiles] : k \in 0..MaxFiles} :
     \A i, j \in 1..Len(l) : l[i].path = l[j].path => i = j}

InitDirectory ==
  /\ filesData \in FileLists
  /\ showAllDependencies = TRUE
  /\ parsed = [state |-> "idle"]
  /\ ScanIdle
  /\ WalkerIdle /\ CacheIdle /\ NameIdle /\ TextIdle

NextDirectory ==
  \/ \E flag \in BOOLEAN : AnalyzeDirectory(flag)
  \/ DirectoryRead

SpecDirectory == InitDirectory /\ [][NextDirectory]_<<vars, dirVars>>

\* the most files of a scan of three procedures
MaxOrderFiles == 3

\* three procedures of two domains in two directories, each with or without
\* a call of the first
OrderFiles ==
  [path : {"Fin", "Wh"} \X {FI_A_SP \o <<".sql">>, FI_PostA_SP \o <<".sql">>,
                            WI_B_SP \o <<".sql">>},
   content : {<<>>, <<"EXEC", " ">> \o FI_A_SP \o <<"\n">>}]

\* the scans of these files, in every order readDirectory can list them
OrderFileLists ==
  {l \in UNION {[1..k -> OrderFiles] : k \in 0..MaxOrderFiles} :
     \A i, j \in 1..Len(l) : l[i].path = l[j].path => i = j}

InitDirectoryOrder ==
  /\ filesData \in OrderFileLists
  /\ showAllDependencies = TRUE
  /\ parsed = [state |-> "idle"]
  /\ ScanIdle
  /\ WalkerIdle /\ CacheIdle /\ NameIdle /\ TextIdle

SpecDirectoryOrder == InitDirectoryOrder /\ [][NextDirectory]_<<vars, dirVars>>

\* the most analyzeDirectory calls made on the service
MaxDirCalls == 2

\* analyzeDirectory, lines 198-220, of a call made while others may be
\* awaiting their read: the argument is stored in the service's field
AnalyzeDirectoryCall(flag) ==
  /\ Len(dirCalls) < MaxDirCalls
  /\ showAllDependencies' = flag
  /\ dirCalls' = Append(dirCalls, [flag |-> flag, state |-> "reading",
                                   result |-> [state |-> "idle"]])
  /\ UNCHANGED <<filesData, parsed, disk, scanned>>
  /\ UNCHANGED <<vars, cacheVars, nameVars, textVars>>

\* analyzeDirectory, lines 220-356, of call i: readDirectory returned, and
\* line 323 reads the service's field
DirectoryReadCall(i) ==
  /\ dirCalls[i].state = "reading"
  /\ \E r \in {analyzeDirectory(filesData, showAllDependencies)} :
       dirCalls' = [dirCalls EXCEPT ![i] = [@ EXCEPT !.state = "done", !.result = r]]
  /\ UNCHANGED <<filesData, showAllDependencies, parsed, disk, scanned>>
  /\ UNCHANGED <<vars, cacheVars, nameVars, textVars>>

InitDirectoryCalls ==
  /\ filesData \in FileLists
  /\ showAllDependencies = TRUE
  /\ parsed = [state |-> "idle"]
  /\ disk = <<>> /\ scanned = [state |-> "idle"]
  /\ dirCalls = <<>>
  /\ WalkerIdle /\ CacheIdle /\ NameIdle /\ TextIdle

NextDirectoryCalls ==
  \/ \E flag \in BOOLEAN : AnalyzeDirectoryCall(flag)
  \/ \E i \in 1..Len(dirCalls) : DirectoryReadCall(i)

SpecDirectoryCalls ==
  InitDirectoryCalls /\ [][NextDirectoryCalls]_<<vars, dirVars>>

HasEdge(d1, d2) ==
  \E k \in 1..Len(parsed.directoryDependencies) :
    /\ parsed.directoryDependencies[k].sourceDirectory = d1
    /\ parsed.directoryDependencies[k].targetDirectory = d2

\* the scanned file i follows the naming convention
IsProcedureFile(i) == extractSpDetailsFromName(filesData[i].path[2]).matched
NameOfFile(i) == extractSpDetailsFromName(filesData[i].path[2]).name
DomainOfFile(i) == extractSpDetailsFromName(filesData[i].path[2]).domain
DirOfFile(i) == DirectoryPathOf(filesData[i].path[1])

\* the detector finds the name in the text
CallsName(content, name) ==
  LET calls == findExecCalls(content)
  IN  \E k \in 1..Len(calls) : calls[k] = name

\* the calls recorded in the result: <<source k, its target i>>
RecordedCalls ==
  UNION {{<<k, i>> : i \in 1..Len(parsed.procedureCalls[k].targets)} :
           k \in 1..Len(parsed.procedureCalls)}
SourceOf(c) == MapGet(parsed.procedures, parsed.procedureCalls[c[1]].source)
TargetNameOf(c) == parsed.procedureCalls[c[1]].targets[c[2]]
HasTarget(c) == MapHas(parsed.procedures, TargetNameOf(c))
TargetOf(c) == MapGet(parsed.procedures, TargetNameOf(c))

\* the call is one from directory d1 into directory d2 that the setting asks for
Joins(c, d1, d2) ==
  /\ HasTarget(c)
  /\ SourceOf(c).directoryPath = d1
  /\ TargetOf(c).directoryPath = d2
  /\ showAllDependencies \/ SourceOf(c).domain # TargetOf(c).domain

\* C12 as claimed: for scanned files A and B in different directories, A
\* calling the procedure of B, the edge (dirA -> dirB) exists exactly if
\* showAllDependencies is set or the domains differ; no edge joins a
\* directory to itself
C12_EdgeIffAllOrCrossDomain ==
  parsed.state = "done" =>
    /\ \A i, j \in 1..Len(filesData) :
         (/\ IsProcedureFile(i) /\ IsProcedureFile(j)
          /\ DirOfFile(i) # DirOfFile(j)
          /\ CallsName(filesData[i].content, NameOfFile(j)))
         => (HasEdge(DirOfFile(i), DirOfFile(j))
               <=> (showAllDependencies \/ DomainOfFile(i) # DomainOfFile(j)))
    /\ \A d \in parsed.allScannedDirectories : ~HasEdge(d, d)

\* C12 amended: the edge (d1 -> d2) exists exactly if d1 and d2 differ and a
\* registered procedure of d1 has a detected call whose target has its
\* record (of the first file of that name, or a virtual one) in d2, with
\* showAllDependencies set or the two domains different
C12_EdgeIffSomeCallJoins ==
  parsed.state = "done" =>
    \A d1, d2 \in parsed.allScannedDirectories :
      HasEdge(d1, d2) <=> (d1 # d2 /\ \E c \in RecordedCalls : Joins(c, d1, d2))

\* a call inside one domain, between two directories, gave an edge
C12_Witness ==
  /\ parsed.state = "done"
  /\ \E k \in 1..Len(parsed.directoryDependencies) :
       ~parsed.directoryDependencies[k].isCrossDomain

\* C13: directoryDependencies holds no edge from a directory to itself and
\* no two edges with the same source and target
C13_EdgesDistinctNoLoop ==
  parsed.state = "done" =>
    \A k, l \in 1..Len(parsed.directoryDependencies) :
      LET e == parsed.directoryDependencies[k]
          f == parsed.directoryDependencies[l]
      IN  /\ e.sourceDirectory # e.targetDirectory
          /\ (e.sourceDirectory = f.sourceDirectory
                /\ e.targetDirectory = f.targetDirectory) => k = l

\* two different calls join the same pair of directories, and a call stays
\* inside one directory
C13_Witness ==
  /\ parsed.state = "done"
  /\ \E c, d \in RecordedCalls :
       /\ c # d
       /\ HasTarget(c) /\ HasTarget(d)
       /\ SourceOf(c).directoryPath # TargetOf(c).directoryPath
       /\ Joins(d, SourceOf(c).directoryPath, TargetOf(c).directoryPath)
       /\ Joins(c, SourceOf(c).directoryPath, TargetOf(c).directoryPath)

\* the first scanned file that resolves to the name of file i
FirstOfName(i) ==
  Least({j \in 1..Len(filesData) : IsProcedureFile(j) /\ NameOfFile(j) = NameOfFile(i)})

DuplicateWarnings ==
  {k \in 1..Len(parsed.errors) : parsed.errors[k].kind = "duplicate"}

\* C14: the record of a name is the one of the first file that resolves to
\* it, every later file of the name has one warning, and the result is there
C14_FirstSeenWins ==
  parsed.state = "done" =>
    /\ \A i \in 1..Len(filesData) :
         IsProcedureFile(i) =>
           LET info == MapGet(parsed.procedures, NameOfFile(i))
               first == filesData[FirstOfName(i)]
           IN  /\ MapHas(parsed.procedures, NameOfFile(i))
               /\ info.filePath = first.path
               /\ info.directoryPath = DirectoryPathOf(first.path[1])
               /\ info.lineCount = LineCount(first.content)
               /\ FirstOfName(i) # i =>
                    Cardinality({k \in DuplicateWarnings :
                                   parsed.errors[k].second = filesData[i].path}) = 1
    /\ Cardinality(DuplicateWarnings)
         = Cardinality({i \in 1..Len(filesData) :
                          IsProcedureFile(i) /\ FirstOfName(i) # i})

\* two files of one name were scanned, with different line counts
C14_Witness ==
  /\ parsed.state = "done"
  /\ \E i, j \in 1..Len(filesData) :
       /\ i < j /\ IsProcedureFile(i) /\ IsProcedureFile(j)
       /\ NameOfFile(i) = NameOfFile(j)
       /\ LineCount(filesData[i].content) # LineCount(filesData[j].content)

\* C15 as claimed: every call target detected for a registered procedure has
\* a registry entry after analyzeDirectory, a virtual one if no file has it
C15_EveryTargetRegistered ==
  parsed.state = "done" => \A c \in RecordedCalls : HasTarget(c)

\* C20 as claimed: the metrics of every chain analyzeProcedureChain returned
\* have cyclomaticComplexity >= 1, also when the root file could not be read
C20_ComplexityAtLeastOne ==
  \A c \in Runs : pc[c] = "done" => chain[c].metrics.cyclomaticComplexity >= 1

\* C26: with showAllDependencies set, an edge of directoryDependencies is
\* marked isCrossDomain whenever some detected call from a procedure of its
\* source directory to a procedure of its target directory crosses domains,
\* in whatever order the files were scanned
C26_CrossDomainIfSomeCallCrosses ==
  (parsed.state = "done" /\ showAllDependencies) =>
    \A k \in 1..Len(parsed.directoryDependencies) :
      LET e == parsed.directoryDependencies[k]
      IN  (\E c \in RecordedCalls :
             /\ Joins(c, e.sourceDirectory, e.targetDirectory)
             /\ SourceOf(c).domain # TargetOf(c).domain)
          => e.isCrossDomain

\* C27: the edges in the result of an analyzeDirectory call are those its own
\* flag asks for (all, or the cross-domain ones only), also when another
\* call with another flag started while it awaited the directory read
C27_FilterFollowsOwnFlag ==
  \A i \in 1..Len(dirCalls) :
    dirCalls[i].state = "done" =>
      dirCalls[i].result.directoryDependencies
        = analyzeDirectory(filesData, dirCalls[i].flag).directoryDependencies

\* ---- main.js: the fs:readDirectory handler ----
\* the most entries of one directory
MaxEntries == 2

\* String.prototype.toLowerCase on the extension of a file name
ToLowerCase(ext) == IF ext = ".SQL" THEN ".sql" ELSE ext

\* entry.name.toLowerCase().endsWith('.sql'); a name is <<stem, extension>>
EndsWithSql(name) == ToLowerCase(name[Len(name)]) = ".sql"

\* path.join(currentPath, entry.name); a path is the sequence of its names
PathJoin(currentPath, name) == Append(currentPath, name)

\* getRelativePath: path.relative of a path beneath basePath
getRelativePath(basePath, filePath) ==
  SubSeq(filePath, Len(basePath) + 1, Len(filePath))

\* a failure leaves no trace in the result
ErrorUnrecorded(acc, what, fullPath) == acc

\* the catch clauses: errors.push(`Error reading <what> <path>: <message>`)
RecordError(acc, what, fullPath) ==
  [acc EXCEPT !.errors = Append(@, [what |-> what, path |-> fullPath])]

RECURSIVE scanDirectory(_, _, _, _)
RECURSIVE ScanEntries(_, _, _, _, _)

\* the body of the for loop of scanDirectory over entries[i..]
ScanEntries(acc, dirPath, currentPath, entries, i) ==
  IF i > Len(entries) THEN acc
  ELSE
    LET entry == entries[i]
        fullPath == PathJoin(currentPath, entry.name)
    IN  ScanEntries(
          IF entry.kind = "dir" THEN scanDirectory(acc, dirPath, fullPath, entry)
          ELSE IF entry.kind = "file" /\ EndsWithSql(entry.name) THEN
            IF entry.ok
            THEN [acc EXCEPT !.filesData =
                    Append(@, [path |-> getRelativePath(dirPath, fullPath),
                               content |-> entry.content])]
            ELSE RecordError(acc, "file", fullPath)
          ELSE acc,
          dirPath, currentPath, entries, i + 1)

\* scanDirectory(currentPath): readdirSync throws for a directory that cannot
\* be read, readFileSync for a file that cannot
scanDirectory(acc, dirPath, currentPath, dir) ==
  IF dir.ok THEN ScanEntries(acc, dirPath, currentPath, dir.entries, 1)
  ELSE RecordError(acc, "directory", currentPath)

\* the handler: dirPath is the path of the tree on the disk, or empty
readDirectory(tree, dirPath) ==
  LET start == [filesData |-> <<>>, errors |-> <<>>]
  IN  IF dirPath # <<>> THEN scanDirectory(start, dirPath, dirPath, tree)
      ELSE start

\* ipcMain.handle('fs:readDirectory', ...): synchronous from entry to return
ReadDirectory(dirPath) ==
  /\ scanned.state = "idle"
  /\ \E r \in {readDirectory(disk, dirPath)} :
       scanned' = [state |-> "done", dirPath |-> dirPath,
                   filesData |-> r.filesData, errors |-> r.errors]
  /\ UNCHANGED <<filesData, showAllDependencies, parsed, disk, dirCalls>>
  /\ UNCHANGED <<vars, cacheVars, nameVars, textVars>>

\* what a directory holds besides directories: .sql files that can or cannot
\* be read, a file of another kind that cannot, and an entry that is neither
\* file nor directory
LeafEntries ==
  {[name |-> <<"a", ".sql">>, kind |-> "file", ok |-> TRUE, content |-> c,
    entries |-> <<>>] : c \in {"", "t"}}
  \cup {[name |-> n, kind |-> "file", ok |-> FALSE, content |-> "t",
         entries |-> <<>>] : n \in {<<"a", ".sql">>, <<"B", ".SQL">>, <<"n", ".txt">>}}
  \cup {[name |-> <<"B", ".SQL">>, kind |-> "file", ok |-> TRUE, content |-> "t",
         entries |-> <<>>],
        [name |-> <<"l", ".sql">>, kind |-> "other", ok |-> TRUE, content |-> "",
         entries |-> <<>>]}

\* readdirSync lists no name twice
EntryLists(S) ==
  {l \in UNION {[1..k -> S] : k \in 0..MaxEntries} :
     \A i, j \in 1..Len(l) : l[i].name = l[j].name => i = j}

SubDirectories ==
  {[name |-> n, kind |-> "dir", ok |-> b, content |-> "", entries |-> l] :
     n \in {<<"sub">>, <<"d", ".sql">>}, b \in BOOLEAN, l \in EntryLists(LeafEntries)}

BasePath == <<<<"base">>>>

Disks ==
  {[name |-> <<"base">>, kind |-> "dir", ok |-> b, content |-> "", entries |-> l] :
     b \in BOOLEAN, l \in EntryLists(LeafEntries \cup SubDirectories)}

InitScan ==
  /\ disk \in Disks
  /\ scanned = [state |-> "idle"]
  /\ dirCalls = <<>>
  /\ filesData = <<>> /\ showAllDependencies = TRUE /\ parsed = [state |-> "idle"]
  /\ WalkerIdle /\ CacheIdle /\ NameIdle /\ TextIdle

NextScan == \E dirPath \in {<<>>, BasePath} : ReadDirectory(dirPath)

SpecScan == InitScan /\ [][NextScan]_<<vars, dirVars>>

\* the entries of the disk with their paths: the base directory, what it
\* lists, and what the directories it lists list
ListedAtTop ==
  IF disk.ok
  THEN {<<PathJoin(BasePath, disk.entries[i].name), disk.entries[i]>> :
          i \in 1..Len(disk.entries)}
  ELSE {}
ListedBelow ==
  UNION {IF pe[2].kind = "dir" /\ pe[2].ok
         THEN {<<PathJoin(pe[1], pe[2].entries[j].name), pe[2].entries[j]>> :
                 j \in 1..Len(pe[2].entries)}
         ELSE {} : pe \in ListedAtTop}
DiskEntries == {<<BasePath, disk>>} \cup ListedAtTop \cup ListedBelow

\* the listed entries whose reading fails
Failures ==
  {pe \in DiskEntries :
     /\ ~pe[2].ok
     /\ pe[2].kind = "dir" \/ (pe[2].kind = "file" /\ EndsWithSql(pe[2].name))}

\* the .sql files that can be read and lie in no directory that cannot
ReadableSqlFiles ==
  {pe \in DiskEntries : pe[2].kind = "file" /\ pe[2].ok /\ EndsWithSql(pe[2].name)}

\* C24: a scan always returns; every directory and every .sql file whose
\* reading failed is in the errors exactly once, and the files returned are
\* exactly the readable .sql files outside the directories that failed,
\* once each and with their content
C24_ScanSurvivesFailures ==
  (scanned.state = "done" /\ scanned.dirPath = BasePath) =>
    /\ Len(scanned.errors) = Cardinality(Failures)
    /\ \A pe \in Failures :
         \E k \in 1..Len(scanned.errors) :
           /\ scanned.errors[k].path = pe[1]
           /\ scanned.errors[k].what = IF pe[2].kind = "dir" THEN "directory" ELSE "file"
    /\ Len(scanned.filesData) = Cardinality(ReadableSqlFiles)
    /\ \A pe \in ReadableSqlFiles :
         \E k \in 1..Len(scanned.filesData) :
           /\ scanned.filesData[k].path = getRelativePath(BasePath, pe[1])
           /\ scanned.filesData[k].content = pe[2].content

\* a directory that cannot be read although it holds a .sql file and a file
\* that cannot be read are met before a readable file, which is returned
C24_Witness ==
  /\ scanned.state = "done" /\ scanned.dirPath = BasePath
  /\ disk.ok /\ Len(disk.entries) = 2
  /\ ~disk.entries[1].ok /\ disk.entries[1].kind = "dir"
  /\ Len(disk.entries[1].entries) = 2
  /\ disk.entries[1].entries[1].ok
  /\ disk.entries[2].kind = "dir" /\ disk.entries[2].ok
  /\ Len(disk.entries[2].entries) = 2
  /\ ~disk.entries[2].entries[1].ok /\ disk.entries[2].entries[1].kind = "file"
  /\ EndsWithSql(disk.entries[2].entries[1].name)
  /\ Len(scanned.errors) = 2
  /\ Len(scanned.filesData) = 1

====
